---- MODULE Spec2Model ----
(***************************************************************************)
(* Authentication and session lifecycle of veridian.                       *)
(*                                                                         *)
(* Two state machines share this module.                                   *)
(*   SpecServer : the Go backend. Token codec (internal/auth/jwt.go), the  *)
(*                refresh_tokens table and its queries, and the auth       *)
(*                handlers, one step per store call so that requests       *)
(*                handled by different goroutines interleave.              *)
(*   SpecClient : the browser client UnifiedApiClient (api-client.ts).     *)
(*                One step per event-loop task: a step runs the            *)
(*                synchronous code and every promise continuation that     *)
(*                follows, up to the next network wait.                    *)
(* Time is counted in whole seconds on both sides.                         *)
(***************************************************************************)
EXTENDS Integers, Sequences, FiniteSets, TLC

VARIABLES
    \* ---- server ----
    now,             \* server clock (time.Now() and the database's now())
    users,           \* users table: account id -> row
    refresh_tokens,  \* refresh_tokens table, in insertion order
    nextId,          \* source of fresh row ids and token ids (uuid.New())
    req,             \* per goroutine: the request being handled
    handed,          \* tokens that 2xx answers have handed to clients
    redeemed,        \* history: refresh tokens a refresh answered 200 for
    cut,             \* history: hashes covered by a completed revoke-all
    loggedOut,       \* history: refresh tokens a logout answered 200 for
    answer,          \* the last answer to a register request or a rejected login
    \* ---- client ----
    cnow,            \* client clock (Date.now() / 1000)
    storage,         \* tokenStorage: the two localStorage slots
    isRefreshing,    \* UnifiedApiClient.isRefreshing
    refreshPromise,  \* UnifiedApiClient.refreshPromise: 0 (null) or flight id
    flights,         \* POST /auth/refresh calls made so far
    call,            \* per caller: the request() invocation in progress
    ncalls,          \* number of request() invocations so far
    settled,         \* outcomes of the calls that settled in the last step
    \* ---- token codec and auth gate on their own ----
    codecIn,         \* how the token under test was made and how it is presented
    codecOut         \* what the last function applied to it returned

serverVars == <<now, users, refresh_tokens, nextId, req, handed, redeemed, cut, loggedOut>>
clientVars == <<cnow, storage, isRefreshing, refreshPromise, flights, call, ncalls, settled>>
codecVars == <<codecIn, codecOut>>
vars == <<now, users, refresh_tokens, nextId, req, handed, redeemed, cut, loggedOut, answer,
          cnow, storage, isRefreshing, refreshPromise, flights, call, ncalls, settled,
          codecIn, codecOut>>

(***************************************************************************)
(* Bounds of the model                                                     *)
(***************************************************************************)
MaxIssue == 2       \* token pairs the server generates in one behaviour

(***************************************************************************)
(* Constants of the program; time is in seconds                            *)
(***************************************************************************)
AccessTTL == 900        \* NewJWTManager(..., 15*time.Minute, ...)
RefreshTTL == 604800    \* NewJWTManager(..., 7*24*time.Hour)

\* The moments at which the server acts: a token issued at 0 is at its
\* expiry at AccessTTL (access) or RefreshTTL (refresh).
ServerInstants == {0, AccessTTL, RefreshTTL}

Workers == {"w1", "w2"}
Accounts == {"u1", "u2"}
EmailOf == [u \in Accounts |-> IF u = "u1" THEN "a@example.com" ELSE "b@example.com"]
Emails == {EmailOf[u] : u \in Accounts} \cup {"nobody@example.com"}
\* "ValidPass123!" and "weakpass" (password_test.go), as code points.
InitialPassword == <<86, 97, 108, 105, 100, 80, 97, 115, 115, 49, 50, 51, 33>>
Passwords == {InitialPassword, <<119, 101, 97, 107, 112, 97, 115, 115>>}

Nil == -1           \* a nil *jwt.NumericDate

(***************************************************************************)
(* Token codec: internal/auth/jwt.go                                       *)
(***************************************************************************)
SecretKey == "server-secret"
Issuer == "veridian-api"
Audience == "veridian-client"

NoToken == [typ |-> "none", sub |-> "", email |-> "", iat |-> 0, exp |-> 0,
            nbf |-> 0, iss |-> "", aud |-> "", jti |-> 0, key |-> ""]

\* A token a client never got from this server (wrong signing key).
ForgedRefresh == [typ |-> "refresh", sub |-> "u1", email |-> "", iat |-> 0,
                  exp |-> 2 * RefreshTTL, nbf |-> 0, iss |-> Issuer,
                  aud |-> Audience, jti |-> 0, key |-> "other-secret"]

\* GenerateAccessToken: the claims that get serialised are the outer fields
\* of JWTClaims; expiresAt = now + accessTokenTTL.
GenerateAccessToken(userID, email, t, id) ==
    [typ |-> "access", sub |-> userID, email |-> email, iat |-> t,
     exp |-> t + AccessTTL, nbf |-> t, iss |-> Issuer, aud |-> Audience,
     jti |-> id, key |-> SecretKey]

\* GenerateRefreshToken: jwt.RegisteredClaims, expiresAt = now + refreshTokenTTL.
GenerateRefreshToken(userID, t, id) ==
    [typ |-> "refresh", sub |-> userID, email |-> "", iat |-> t,
     exp |-> t + RefreshTTL, nbf |-> t, iss |-> Issuer, aud |-> Audience,
     jti |-> id, key |-> SecretKey]

\* json.Unmarshal of a payload into jwt.RegisteredClaims.
DecodeRegisteredClaims(t) ==
    [Subject |-> t.sub, ExpiresAt |-> t.exp, NotBefore |-> t.nbf,
     IssuedAt |-> t.iat, Issuer |-> t.iss, Audience |-> t.aud, ID |-> t.jti]

\* A mutant of the decoding below in which the tagged values go to the
\* embedded jwt.RegisteredClaims and the outer fields stay zero.
DecodeJWTClaimsEmbedded(t) ==
    [UserID |-> "", Email |-> t.email, IssuedAt |-> 0,
     ExpiresAt |-> 0, NotBefore |-> 0, Issuer |-> "",
     Audience |-> "", JTI |-> 0,
     RegisteredClaims |-> [Subject |-> t.sub, ExpiresAt |-> t.exp, NotBefore |-> t.nbf,
                           IssuedAt |-> t.iat, Issuer |-> t.iss, Audience |-> t.aud,
                           ID |-> t.jti]]

\* json.Unmarshal of a payload into JWTClaims.  JWTClaims declares its own
\* fields tagged sub, iat, exp, nbf, iss, aud, jti and embeds
\* jwt.RegisteredClaims, whose fields carry the same tags one level deeper:
\* encoding/json gives each tag to the shallowest field, so the embedded
\* struct is left at its zero value (nil dates).
DecodeJWTClaims(t) ==
    [UserID |-> t.sub, Email |-> t.email, IssuedAt |-> t.iat,
     ExpiresAt |-> t.exp, NotBefore |-> t.nbf, Issuer |-> t.iss,
     Audience |-> t.aud, JTI |-> t.jti,
     RegisteredClaims |-> [Subject |-> "", ExpiresAt |-> Nil, NotBefore |-> Nil,
                           IssuedAt |-> Nil, Issuer |-> "", Audience |-> "",
                           ID |-> 0]]

\* The error of jwt.ParseWithClaims ("" for none) for a token whose payload
\* unmarshals (parses) into the claims rc: the token is parsed, its signature
\* verified with the manager's key, then its claims validated through
\* GetExpirationTime / GetNotBefore, which are the methods of the embedded
\* jwt.RegisteredClaims: a nil date is not checked.
ParseWithClaims(tok, parses, rc, t) ==
    IF ~parses THEN "token is malformed"
    ELSE IF tok.key # SecretKey THEN "token signature is invalid"
    ELSE IF rc.ExpiresAt # Nil /\ t >= rc.ExpiresAt THEN "token is expired"
    ELSE IF rc.NotBefore # Nil /\ t < rc.NotBefore THEN "token is not valid yet"
    ELSE ""

\* The error ValidateAccessToken returns at time t, "" for none.
\* A refresh token carries aud as a JSON array, which does not unmarshal
\* into JWTClaims.Audience (a string): parse error.
\* The mutant skips the issuer comparison.
ValidateAccessTokenAnyIssuer(tok, t) ==
    IF ParseWithClaims(tok, tok.typ = "access", DecodeJWTClaims(tok).RegisteredClaims, t) # ""
    THEN ParseWithClaims(tok, tok.typ = "access", DecodeJWTClaims(tok).RegisteredClaims, t)
    ELSE IF DecodeJWTClaims(tok).Audience # Audience THEN "invalid audience"
    ELSE ""
ValidateAccessTokenError(tok, t) ==
    IF ParseWithClaims(tok, tok.typ = "access", DecodeJWTClaims(tok).RegisteredClaims, t) # ""
    THEN ParseWithClaims(tok, tok.typ = "access", DecodeJWTClaims(tok).RegisteredClaims, t)
    ELSE IF DecodeJWTClaims(tok).Audience # Audience THEN "invalid audience"
    ELSE IF DecodeJWTClaims(tok).Issuer # Issuer THEN "invalid issuer"
    ELSE ""

\* The error ValidateRefreshToken returns at time t, "" for none, with a
\* mutant that returns one error for every rejection.
ValidateRefreshTokenUniform(tok, t) ==
    IF ParseWithClaims(tok, tok.typ \in {"access", "refresh"}, DecodeRegisteredClaims(tok), t) # ""
       \/ DecodeRegisteredClaims(tok).Audience # Audience
       \/ DecodeRegisteredClaims(tok).Issuer # Issuer
    THEN "invalid or expired token"
    ELSE ""
ValidateRefreshTokenError(tok, t) ==
    IF ParseWithClaims(tok, tok.typ \in {"access", "refresh"}, DecodeRegisteredClaims(tok), t) # ""
    THEN ParseWithClaims(tok, tok.typ \in {"access", "refresh"}, DecodeRegisteredClaims(tok), t)
    ELSE IF DecodeRegisteredClaims(tok).Audience # Audience THEN "invalid audience"
    ELSE IF DecodeRegisteredClaims(tok).Issuer # Issuer THEN "invalid issuer"
    ELSE ""

\* ValidateAccessToken: TRUE when the token is accepted at time t (err == nil).
ValidateAccessToken(tok, t) == ValidateAccessTokenError(tok, t) = ""

\* ValidateRefreshToken: TRUE when the token is accepted at time t (err == nil).
ValidateRefreshToken(tok, t) == ValidateRefreshTokenError(tok, t) = ""

\* ExtractUserIDFromRefreshToken: the subject, or "" on error.
ExtractUserIDFromRefreshToken(tok, t) ==
    IF ValidateRefreshToken(tok, t) /\ tok.sub \in Accounts
    THEN DecodeRegisteredClaims(tok).Subject ELSE ""

\* sha256.Sum256 + hex.EncodeToString of the token string.
TokenHash(tok) == <<"sha256", tok.typ, tok.sub, tok.jti, tok.exp, tok.key>>

(***************************************************************************)
(* Password hasher: internal/auth/password.go.  A password is the sequence *)
(* of its code points.  An encoded digest is the sequence of the pieces    *)
(* strings.Split(encodedHash, "$") yields; a piece is its literal text     *)
(* runs (lit), the decimal numbers between them (num), and, for base64     *)
(* text, the bytes it encodes (raw).                                       *)
(***************************************************************************)
Piece(lit, num, raw) == [lit |-> lit, num |-> num, raw |-> raw]

IDKeyUnkeyed(password, salt, time, memory, threads, keyLen) ==
    IF time < 1 \/ threads < 1 THEN <<"panic">>
    ELSE <<"argon2id", <<>>, salt, time, memory, threads, keyLen>>

\* argon2.IDKey: taken as collision free, so the key names its inputs; the
\* library panics for fewer than one round or one thread.
IDKey(password, salt, time, memory, threads, keyLen) ==
    IF time < 1 \/ threads < 1 THEN <<"panic">>
    ELSE <<"argon2id", password, salt, time, memory, threads, keyLen>>

\* NewPasswordManager's parameters, the salt drawn by rand.Read given.
HashPassword(password, salt) ==
    <<Piece(<<>>, <<>>, <<>>), Piece(<<"argon2id">>, <<>>, <<>>),
      Piece(<<"v=">>, <<19>>, <<>>), Piece(<<"m=", ",t=", ",p=">>, <<65536, 3, 4>>, <<>>),
      Piece(<<"base64">>, <<>>, salt),
      Piece(<<"base64">>, <<>>, IDKey(password, salt, 3, 65536, 4, 32))>>

\* parseHash: the first failing step names the error; fmt.Sscanf reads the
\* verbs of its format and ignores what follows them, parallelism is a
\* uint8, base64.RawStdEncoding decodes the empty text to no bytes.
parseHash(parts) ==
    LET Sscanf(piece, literals) ==
            /\ Len(piece.lit) >= Len(literals)
            /\ SubSeq(piece.lit, 1, Len(literals)) = literals
            /\ Len(piece.num) >= Len(literals)
        Decodes(piece) == piece.lit = <<"base64">> \/ piece.lit = <<>>
        failed(err) == [err |-> err, memory |-> 0, iterations |-> 0,
                        parallelism |-> 0, salt |-> <<>>, hash |-> <<>>] IN
    IF Len(parts) # 6 THEN failed("invalid hash format")
    ELSE IF parts[2] # Piece(<<"argon2id">>, <<>>, <<>>)
    THEN failed("incompatible hash algorithm")
    ELSE IF ~Sscanf(parts[3], <<"v=">>) THEN failed("invalid version")
    ELSE IF parts[3].num[1] # 19 THEN failed("incompatible argon2 version")
    ELSE IF \/ ~Sscanf(parts[4], <<"m=", ",t=", ",p=">>)
            \/ parts[4].num[1] < 0 \/ parts[4].num[2] < 0
            \/ parts[4].num[3] \notin 0..255
    THEN failed("invalid parameters")
    ELSE IF ~Decodes(parts[5]) THEN failed("invalid salt")
    ELSE IF ~Decodes(parts[6]) THEN failed("invalid hash")
    ELSE [err |-> "", memory |-> parts[4].num[1], iterations |-> parts[4].num[2],
          parallelism |-> parts[4].num[3], salt |-> parts[5].raw, hash |-> parts[6].raw]

VerifyPasswordResultSilent(password, encodedHash) ==
    LET parsed == parseHash(encodedHash)
        otherHash == IDKey(password, parsed.salt, parsed.iterations, parsed.memory,
                           parsed.parallelism, 32) IN
    IF parsed.err # "" THEN [valid |-> FALSE, err |-> ""]
    ELSE IF otherHash = <<"panic">> THEN [valid |-> FALSE, err |-> "panic"]
    ELSE [valid |-> parsed.hash = otherHash, err |-> ""]

\* VerifyPassword as the pair it returns (valid, err): a digest that does
\* not parse gives (false, error), one that parses gives the constant-time
\* comparison and no error; err is "panic" where argon2.IDKey panics.
VerifyPasswordResult(password, encodedHash) ==
    LET parsed == parseHash(encodedHash)
        otherHash == IDKey(password, parsed.salt, parsed.iterations, parsed.memory,
                           parsed.parallelism, 32) IN
    IF parsed.err # ""
    THEN [valid |-> FALSE, err |-> "failed to parse hash: " \o parsed.err]
    ELSE IF otherHash = <<"panic">> THEN [valid |-> FALSE, err |-> "panic"]
    ELSE [valid |-> parsed.hash = otherHash, err |-> ""]

\* A call site's "err != nil || !isValid" is the negation of this.
VerifyPassword(password, encodedHash) ==
    LET result == VerifyPasswordResult(password, encodedHash) IN
    result.err = "" /\ result.valid

\* ValidatePasswordStrength as the error it returns ("" for nil): len is
\* the length in bytes of the UTF-8 text, the loop visits code points, and
\* the first rule that fails is the one reported.
ValidatePasswordStrengthError(password) ==
    LET len == Len(password)
               + Cardinality({i \in DOMAIN password : password[i] >= 128})
               + Cardinality({i \in DOMAIN password : password[i] >= 2048})
               + Cardinality({i \in DOMAIN password : password[i] >= 65536})
        has(low, high) == \E i \in DOMAIN password : password[i] \in low..high
        hasUpper == has(65, 90)
        hasLower == has(97, 122)
        hasDigit == has(48, 57)
        hasSpecial == has(33, 47) \/ has(58, 64) \/ has(91, 96) \/ has(123, 126) IN
    IF len < 8 THEN "password must be at least 8 characters long"
    ELSE IF len > 128 THEN "password must be no more than 128 characters long"
    ELSE IF ~hasUpper THEN "password must contain at least one uppercase letter"
    ELSE IF ~hasLower THEN "password must contain at least one lowercase letter"
    ELSE IF ~hasDigit THEN "password must contain at least one number"
    ELSE IF ~hasSpecial THEN "password must contain at least one special character"
    ELSE ""

ValidatePasswordStrength(password) == ValidatePasswordStrengthError(password) = ""

(***************************************************************************)
(* Session store: sql/schemas (refresh_tokens) and sql/queries             *)
(***************************************************************************)
\* A row of refresh_tokens: the columns the queries' WHERE clauses read
\* (created_at and last_used are written and never read).
NoRow == [id |-> 0, user_id |-> "", token_hash |-> <<>>, expires_at |-> 0,
          is_revoked |-> FALSE]

\* INSERT INTO refresh_tokens ... RETURNING *, with a mutant that stores
\* nothing.
CreateRefreshTokenNowhere(table, id, userID, hash, expiresAt, t) == table
CreateRefreshToken(table, id, userID, hash, expiresAt, t) ==
    Append(table, [id |-> id, user_id |-> userID, token_hash |-> hash,
                   expires_at |-> expiresAt, is_revoked |-> FALSE])

\* The WHERE clause of GetRefreshToken, with a mutant that still finds a
\* record at the instant it expires and one that also finds revoked records.
GetRefreshTokenWhereRevoked(r, hash, t) ==
    r.token_hash = hash /\ r.expires_at > t
GetRefreshTokenWhereLate(r, hash, t) ==
    r.token_hash = hash /\ r.is_revoked = FALSE /\ r.expires_at >= t
GetRefreshTokenWhere(r, hash, t) ==
    r.token_hash = hash /\ r.is_revoked = FALSE /\ r.expires_at > t

\* SELECT * FROM refresh_tokens WHERE token_hash = $1 AND is_revoked = FALSE
\* AND expires_at > now()  (:one, the first row; NoRow is pgx.ErrNoRows)
GetRefreshToken(table, hash, t) ==
    IF SelectSeq(table, LAMBDA r : GetRefreshTokenWhere(r, hash, t)) = <<>>
    THEN NoRow
    ELSE Head(SelectSeq(table, LAMBDA r : GetRefreshTokenWhere(r, hash, t)))

\* UPDATE refresh_tokens SET is_revoked = TRUE WHERE token_hash = $1, with a
\* mutant that flips the flag and one that has lost its WHERE clause.
RevokeRefreshTokenFlips(table, hash) ==
    [i \in DOMAIN table |->
        IF table[i].token_hash = hash
        THEN [table[i] EXCEPT !.is_revoked = ~table[i].is_revoked] ELSE table[i]]
RevokeRefreshTokenEverywhere(table, hash) ==
    [i \in DOMAIN table |-> [table[i] EXCEPT !.is_revoked = TRUE]]
RevokeRefreshToken(table, hash) ==
    [i \in DOMAIN table |->
        IF table[i].token_hash = hash
        THEN [table[i] EXCEPT !.is_revoked = TRUE] ELSE table[i]]

\* UPDATE refresh_tokens SET is_revoked = TRUE WHERE user_id = $1, with a
\* mutant that misses the account's newest record.
RevokeAllButNewest(table, userID) ==
    [i \in DOMAIN table |->
        IF table[i].user_id = userID /\ \E j \in DOMAIN table : j > i /\ table[j].user_id = userID
        THEN [table[i] EXCEPT !.is_revoked = TRUE] ELSE table[i]]
RevokeAllUserRefreshTokens(table, userID) ==
    [i \in DOMAIN table |->
        IF table[i].user_id = userID
        THEN [table[i] EXCEPT !.is_revoked = TRUE] ELSE table[i]]

\* The WHERE clause of DeleteExpiredRefreshTokens: expires_at < now() OR
\* is_revoked = TRUE, with a mutant whose comparison is turned round.
DeleteExpiredWhereLive(r, t) == r.expires_at > t \/ r.is_revoked = TRUE
DeleteExpiredWhere(r, t) == r.expires_at < t \/ r.is_revoked = TRUE

Rows(table) == {table[i] : i \in DOMAIN table}

\* An id that has no row in users.
NoUser == [email |-> "", hashed_password |-> <<>>, is_active |-> FALSE]

\* SELECT * FROM users WHERE email = $1: the id, or "" (pgx.ErrNoRows).
GetUserByEmailIncludeInactive(us, email) ==
    IF \E u \in Accounts : us[u] # NoUser /\ us[u].email = email
    THEN CHOOSE u \in Accounts : us[u] # NoUser /\ us[u].email = email
    ELSE ""

\* INSERT INTO users (email, hashed_password, email_verified, is_active)
\* under email VARCHAR(255) NOT NULL UNIQUE: the table with the new row under
\* a fresh id, or the table as it was when the insert violates the
\* constraint.
CreateUser(us, email, hashedPassword) ==
    IF GetUserByEmailIncludeInactive(us, email) # "" \/ \A u \in Accounts : us[u] # NoUser
    THEN us
    ELSE [us EXCEPT ![CHOOSE u \in Accounts : us[u] = NoUser] =
             [email |-> email, hashed_password |-> hashedPassword, is_active |-> TRUE]]

\* SELECT * FROM users WHERE email = $1 AND is_active = TRUE: the id, or "".
GetUserByEmail(us, email) ==
    IF \E u \in Accounts : us[u].email = email /\ us[u].is_active
    THEN CHOOSE u \in Accounts : us[u].email = email /\ us[u].is_active
    ELSE ""

\* SELECT * FROM users WHERE id = $1 AND is_active = TRUE: the id, or "".
GetUserByID(us, id) ==
    IF id \in Accounts /\ us[id].is_active THEN id ELSE ""

(***************************************************************************)
(* Requests in progress and answers                                        *)
(***************************************************************************)
\* email and password are the body of a register request; storeOk is
\* history: no store call of the request has returned an error of the
\* connection so far.
\* late and pre are history, fixed when the request is accepted:
\*   late - (refresh) a refresh with this token had been answered 200
\*   pre  - (changePassword) ids of the account's session records
Idle == [kind |-> "idle", pc |-> "", tok |-> NoToken, newPassword |-> <<>>,
         email |-> "", password |-> <<>>, storeOk |-> TRUE,
         uid |-> "", access |-> NoToken, refresh |-> NoToken,
         late |-> FALSE, pre |-> {}]

\* c.JSON(status, gin.H{"error": error}); status 0: the handler goes on.
Reply(status, error) == [status |-> status, error |-> error]
GoesOn == Reply(0, "")

\* The final c.JSON of the request of goroutine w and its return.  A 200 of
\* login or refresh carries the token pair to the client.
Respond(w, status) ==
    /\ handed' = IF status = 200 /\ req[w].kind \in {"login", "refresh"}
                 THEN handed \cup {req[w].access, req[w].refresh} ELSE handed
    /\ redeemed' = IF status = 200 /\ req[w].kind = "refresh"
                   THEN redeemed \cup {req[w].tok} ELSE redeemed
    /\ req' = [req EXCEPT ![w] = Idle]

\* The request of goroutine w goes on to its next store call.
Continue(w, r) ==
    /\ req' = [req EXCEPT ![w] = r]
    /\ UNCHANGED <<handed, redeemed>>

\* The goroutine that serves the next request: goroutines are interchangeable,
\* so it is the first idle one.
Acceptor == IF req["w1"].kind = "idle" THEN "w1" ELSE "w2"
Accepts == req[Acceptor].kind = "idle"

\* Accounts are interchangeable too: the first login the server accepts is u1's.
LoginEmails == IF nextId = 1 THEN Emails \ {EmailOf["u2"]} ELSE Emails

IssuedRefresh == {t \in handed : t.typ = "refresh"}
IssuedAccess == {t \in handed : t.typ = "access"}

\* What `answer` holds: the request (kind, email, password), the c.JSON
\* reply, the token pair of the body, and as history the account the
\* request created (uid, "" for none) and storeOk of the request.
Unanswered == [kind |-> "", email |-> "", password |-> <<>>, reply |-> GoesOn,
               access |-> NoToken, refresh |-> NoToken, uid |-> "", storeOk |-> TRUE]

InitServerVars ==
    /\ now = 0
    /\ users = [u \in Accounts |->
                  [email |-> EmailOf[u], hashed_password |-> HashPassword(InitialPassword, "salt"),
                   is_active |-> TRUE]]
    /\ refresh_tokens = <<>>
    /\ nextId = 1
    /\ req = [w \in Workers |-> Idle]
    /\ handed = {}
    /\ redeemed = {}
    /\ cut = {}
    /\ loggedOut = {}
    /\ answer = Unanswered

\* time.Now() moves on to a later instant.
Tick(t) ==
    /\ t > now
    /\ now' = t
    /\ UNCHANGED <<users, refresh_tokens, nextId, req, handed, redeemed, cut, loggedOut>>
    /\ UNCHANGED <<clientVars, codecVars, answer>>

(***************************************************************************)
(* Handlers: internal/handlers (auth handlers).  A handler is cut into     *)
(* steps at its writes to the store.  Its code before the first write only *)
(* reads: the ...Check operator is the answer that code gives (GoesOn when *)
(* it reaches the write), and a request it rejects leaves the state as it  *)
(* was.  dbOk = FALSE is the store call of the step returning an error.    *)
(***************************************************************************)
\* LoginHandler before its write: ShouldBindJSON, GetUserByEmail, VerifyPassword,
\* with a mutant that tells an unknown email from a wrong password.
LoginCheckTelling(us, email, password, dbOk) ==
    LET u == IF dbOk THEN GetUserByEmail(us, email) ELSE "" IN
    IF u = "" THEN Reply(401, "User not found")
    ELSE IF ~VerifyPassword(password, us[u].hashed_password)
    THEN Reply(401, "Invalid email or password")
    ELSE GoesOn
LoginCheck(us, email, password, dbOk) ==
    LET u == IF dbOk THEN GetUserByEmail(us, email) ELSE "" IN
    IF u = "" THEN Reply(401, "Invalid email or password")
    ELSE IF ~VerifyPassword(password, us[u].hashed_password)
    THEN Reply(401, "Invalid email or password")
    ELSE GoesOn

\* LoginHandler: the checks, GenerateAccessToken, GenerateRefreshToken,
\* CreateRefreshToken, then 200 with the pair (UpdateUserLastLogin writes a
\* column nothing reads); 500 when the insert fails.
LoginHandler(email, password, dbOk, createOk) ==
    /\ LoginCheck(users, email, password, dbOk) = GoesOn
    /\ nextId < 2 * MaxIssue
    /\ nextId' = nextId + 2
    /\ LET u == GetUserByEmail(users, email)
           access == GenerateAccessToken(u, users[u].email, now, nextId)
           refresh == GenerateRefreshToken(u, now, nextId + 1) IN
       IF ~createOk
       THEN UNCHANGED <<refresh_tokens, handed>>
       ELSE /\ refresh_tokens' = CreateRefreshToken(refresh_tokens, refresh.jti, u,
                                     TokenHash(refresh), refresh.exp, now)
            /\ handed' = handed \cup {access, refresh}
    /\ UNCHANGED <<now, users, req, redeemed, cut, loggedOut>>
    /\ UNCHANGED <<clientVars, codecVars, answer>>

\* RefreshTokenHandler before its writes: ShouldBindJSON,
\* ExtractUserIDFromRefreshToken, GetRefreshToken(tokenHashStr), GetUserByID.
RefreshCheck(us, table, tok, t, dbOk) ==
    IF tok = NoToken THEN Reply(400, "Invalid request payload")
    ELSE IF ExtractUserIDFromRefreshToken(tok, t) = ""
    THEN Reply(401, "Invalid refresh token")
    ELSE IF ~dbOk \/ GetRefreshToken(table, TokenHash(tok), t) = NoRow
    THEN Reply(401, "Invalid or expired refresh token")
    ELSE IF GetUserByID(us, ExtractUserIDFromRefreshToken(tok, t)) = ""
    THEN Reply(401, "User not found")
    ELSE GoesOn

\* RefreshTokenHandler: the checks, GenerateAccessToken, GenerateRefreshToken.
RefreshTokenHandler(tok, dbOk) ==
    /\ Accepts
    /\ RefreshCheck(users, refresh_tokens, tok, now, dbOk) = GoesOn
    /\ nextId < 2 * MaxIssue
    /\ LET u == ExtractUserIDFromRefreshToken(tok, now) IN
       Continue(Acceptor, [Idle EXCEPT !.kind = "refresh", !.pc = "revoke", !.tok = tok,
                      !.uid = u, !.late = (tok \in redeemed),
                      !.access = GenerateAccessToken(u, users[u].email, now, nextId),
                      !.refresh = GenerateRefreshToken(u, now, nextId + 1)])
    /\ nextId' = nextId + 2
    /\ UNCHANGED <<now, users, refresh_tokens, cut, loggedOut>>
    /\ UNCHANGED <<clientVars, codecVars, answer>>

\* app.Queries.RevokeRefreshToken(ctx, tokenHashStr): the error is dropped.
RefreshRevoke(w, dbOk) ==
    /\ req[w].kind = "refresh" /\ req[w].pc = "revoke"
    /\ refresh_tokens' = IF dbOk
                         THEN RevokeRefreshToken(refresh_tokens, TokenHash(req[w].tok))
                         ELSE refresh_tokens
    /\ Continue(w, [req[w] EXCEPT !.pc = "create"])
    /\ UNCHANGED <<now, users, nextId, cut, loggedOut>>
    /\ UNCHANGED <<clientVars, codecVars, answer>>

\* CreateRefreshToken for the new token, then 200 with the pair
\* (UpdateRefreshTokenLastUsed writes a column nothing reads, and its error is
\* dropped); 500 when the insert fails.
RefreshCreate(w, dbOk) ==
    /\ req[w].kind = "refresh" /\ req[w].pc = "create"
    /\ IF ~dbOk
       THEN /\ Respond(w, 500)
            /\ UNCHANGED refresh_tokens
       ELSE /\ refresh_tokens' = CreateRefreshToken(refresh_tokens, req[w].refresh.jti,
                                     req[w].uid, TokenHash(req[w].refresh),
                                     req[w].refresh.exp, now)
            /\ Respond(w, 200)
    /\ UNCHANGED <<now, users, nextId, cut, loggedOut>>
    /\ UNCHANGED <<clientVars, codecVars, answer>>

\* LogoutHandler before its write: ShouldBindJSON (refresh_token is required).
LogoutCheck(tok) ==
    IF tok = NoToken THEN Reply(400, "Invalid request payload") ELSE GoesOn

\* LogoutHandler: RevokeRefreshToken (error dropped), 200 for the token.
LogoutHandler(tok, dbOk) ==
    /\ Accepts
    /\ LogoutCheck(tok) = GoesOn
    /\ refresh_tokens' = IF dbOk
                         THEN RevokeRefreshToken(refresh_tokens, TokenHash(tok))
                         ELSE refresh_tokens
    /\ loggedOut' = loggedOut \cup {tok}
    /\ UNCHANGED <<now, users, nextId, req, handed, redeemed, cut>>
    /\ UNCHANGED <<clientVars, codecVars, answer>>

\* RegisterHandler before its first write: ShouldBindJSON (the password is
\* bound with "required,min=8", a count of code points),
\* ValidatePasswordStrength (the reply carries the text of its error),
\* GetUserByEmailIncludeInactive: 409 only if that call returns no error.
RegisterCheck(us, email, password, dbOk) ==
    IF Len(password) < 8 THEN Reply(400, "Invalid request payload")
    ELSE IF ~ValidatePasswordStrength(password)
    THEN Reply(400, ValidatePasswordStrengthError(password))
    ELSE IF dbOk /\ GetUserByEmailIncludeInactive(us, email) # ""
    THEN Reply(409, "User with this email already exists")
    ELSE GoesOn

\* RegisterHandler up to its CreateUser call.  Token ids are left for the
\* register requests in progress.
RegisterHandler(email, password, dbOk) ==
    /\ Accepts
    /\ nextId + 2 * Cardinality({w \in Workers : req[w].kind = "register"}) < 2 * MaxIssue
    /\ IF RegisterCheck(users, email, password, dbOk) # GoesOn
       THEN /\ answer' = [Unanswered EXCEPT !.kind = "register", !.email = email,
                              !.password = password, !.storeOk = dbOk,
                              !.reply = RegisterCheck(users, email, password, dbOk)]
            /\ UNCHANGED req
       ELSE /\ req' = [req EXCEPT ![Acceptor] =
                          [Idle EXCEPT !.kind = "register", !.pc = "createUser",
                                       !.email = email, !.password = password,
                                       !.storeOk = dbOk]]
            /\ UNCHANGED answer
    /\ UNCHANGED <<now, users, refresh_tokens, nextId, handed, redeemed, cut, loggedOut>>
    /\ UNCHANGED <<clientVars, codecVars>>

\* HashPassword, CreateUser: 500 when the insert fails; then
\* GenerateAccessToken and GenerateRefreshToken for the new account.
RegisterCreateUser(w, dbOk) ==
    /\ req[w].kind = "register" /\ req[w].pc = "createUser"
    /\ LET created == CreateUser(users, req[w].email, HashPassword(req[w].password, "salt"))
           u == GetUserByEmailIncludeInactive(created, req[w].email) IN
       IF ~dbOk \/ created = users
       THEN /\ answer' = [Unanswered EXCEPT !.kind = "register", !.email = req[w].email,
                              !.password = req[w].password,
                              !.storeOk = (req[w].storeOk /\ dbOk),
                              !.reply = Reply(500, "Failed to create user")]
            /\ req' = [req EXCEPT ![w] = Idle]
            /\ UNCHANGED <<users, nextId>>
       ELSE /\ users' = created
            /\ nextId' = nextId + 2
            /\ req' = [req EXCEPT ![w] =
                          [req[w] EXCEPT !.pc = "createToken", !.uid = u,
                               !.access = GenerateAccessToken(u, created[u].email, now, nextId),
                               !.refresh = GenerateRefreshToken(u, now, nextId + 1)]]
            /\ UNCHANGED answer
    /\ UNCHANGED <<now, refresh_tokens, handed, redeemed, cut, loggedOut>>
    /\ UNCHANGED <<clientVars, codecVars>>

\* CreateRefreshToken: 500 when the insert fails; otherwise 201 with the
\* pair (UpdateUserLastLogin writes a column nothing reads).
RegisterCreateToken(w, dbOk) ==
    /\ req[w].kind = "register" /\ req[w].pc = "createToken"
    /\ IF ~dbOk
       THEN /\ answer' = [Unanswered EXCEPT !.kind = "register", !.email = req[w].email,
                              !.password = req[w].password, !.uid = req[w].uid,
                              !.storeOk = FALSE,
                              !.reply = Reply(500, "Failed to store refresh token")]
            /\ UNCHANGED <<refresh_tokens, handed>>
       ELSE /\ refresh_tokens' = CreateRefreshToken(refresh_tokens, req[w].refresh.jti,
                                     req[w].uid, TokenHash(req[w].refresh),
                                     req[w].refresh.exp, now)
            /\ handed' = handed \cup {req[w].access, req[w].refresh}
            /\ answer' = [Unanswered EXCEPT !.kind = "register", !.email = req[w].email,
                              !.password = req[w].password, !.uid = req[w].uid,
                              !.storeOk = req[w].storeOk,
                              !.reply = Reply(201, ""),
                              !.access = req[w].access, !.refresh = req[w].refresh]
    /\ req' = [req EXCEPT ![w] = Idle]
    /\ UNCHANGED <<now, users, nextId, redeemed, cut, loggedOut>>
    /\ UNCHANGED <<clientVars, codecVars>>

\* LoginHandler when one of its checks fails: the 401 and return, before
\* any token is generated.
LoginRejected(email, password, dbOk) ==
    /\ LoginCheck(users, email, password, dbOk) # GoesOn
    /\ answer' = [Unanswered EXCEPT !.kind = "login", !.email = email,
                      !.password = password, !.storeOk = dbOk,
                      !.reply = LoginCheck(users, email, password, dbOk)]
    /\ UNCHANGED serverVars
    /\ UNCHANGED <<clientVars, codecVars>>

\* UnifiedApiClient.logout() of the client that holds the handed-out tokens,
\* from its fetch() to its return: request('/auth/logout', {method: 'POST',
\* requireAuth: true}) carries the access token in its header and no body,
\* so the refresh_token LogoutHandler binds is absent; the client catches an
\* error answer and clears its storage.  `answer` keeps the server's reply.
ClientLogout(dbOk) ==
    /\ Accepts
    /\ LET body == NoToken IN
       /\ refresh_tokens' = IF LogoutCheck(body) = GoesOn /\ dbOk
                            THEN RevokeRefreshToken(refresh_tokens, TokenHash(body))
                            ELSE refresh_tokens
       /\ loggedOut' = IF LogoutCheck(body) = GoesOn THEN loggedOut \cup {body}
                       ELSE loggedOut
       /\ answer' = [Unanswered EXCEPT !.kind = "logout", !.storeOk = dbOk,
                         !.reply = IF LogoutCheck(body) = GoesOn THEN Reply(200, "")
                                   ELSE LogoutCheck(body)]
    /\ UNCHANGED <<now, users, nextId, req, handed, redeemed, cut>>
    /\ UNCHANGED <<clientVars, codecVars>>

\* DELETE FROM refresh_tokens WHERE expires_at < now() OR is_revoked = TRUE,
\* run by a housekeeping job between the store calls of the handlers.
DeleteExpiredRefreshTokens ==
    /\ refresh_tokens' = SelectSeq(refresh_tokens, LAMBDA r : ~DeleteExpiredWhere(r, now))
    /\ UNCHANGED <<now, users, nextId, req, handed, redeemed, cut, loggedOut>>
    /\ UNCHANGED <<clientVars, codecVars, answer>>

\* An Authorization header of a request: absent, or present with a value.
\* The value is a string, kept as the sequence of its pieces: the words
\* "Bearer" and "Basic", the space " ", and token strings (token records).
Space == [NoToken EXCEPT !.typ = " "]
BearerWord == [NoToken EXCEPT !.typ = "Bearer"]
BasicWord == [NoToken EXCEPT !.typ = "Basic"]
NoHeader == [present |-> FALSE, value |-> <<>>]
Header(value) == [present |-> TRUE, value |-> value]
BearerHeader(tok) == Header(<<BearerWord, Space, tok>>)

\* c.GetHeader("Authorization"): the value, "" when the header is absent.
GetHeader(h) == IF h.present THEN h.value ELSE <<>>

\* strings.SplitN(s, " ", 2): s itself when it holds no space, otherwise the
\* part before the first space and the whole rest.
FirstSpace(s) ==
    IF \E i \in 1..Len(s) : s[i] = Space
    THEN CHOOSE i \in 1..Len(s) : s[i] = Space /\ \A j \in 1..(i - 1) : s[j] # Space
    ELSE 0
SplitN(s) ==
    LET i == FirstSpace(s) IN
    IF i = 0 THEN <<s>> ELSE <<SubSeq(s, 1, i - 1), SubSeq(s, i + 1, Len(s))>>

\* strings.TrimSpace: without its leading and trailing spaces, with a mutant
\* that trims nothing.
TrimNothing(s) == s
TrimSpace(s) ==
    IF \A i \in 1..Len(s) : s[i] = Space THEN <<>>
    ELSE SubSeq(s, CHOOSE i \in 1..Len(s) : s[i] # Space /\ \A j \in 1..(i - 1) : s[j] = Space,
                   CHOOSE i \in 1..Len(s) : s[i] # Space /\ \A j \in (i + 1)..Len(s) : s[j] = Space)

\* A string that is not a JWT: ParseWithClaims fails on it.
Malformed == [NoToken EXCEPT !.typ = "malformed"]

\* The token a token string stands for: a JWT is one piece, a token record.
TokenOf(s) ==
    IF Len(s) = 1 /\ s[1] \notin {BearerWord, BasicWord, Space} THEN s[1] ELSE Malformed

\* The request context of gin: the keys set with c.Set, and the dynamic type
\* of the value kept under "user_id"; the user id "" is uuid.Nil.
NoContext == [user_id |-> "", user_id_type |-> "", user_email |-> "", jwt_id |-> 0,
              set |-> FALSE]

\* c.Set("user_id", claims.UserID), c.Set("user_email", claims.Email),
\* c.Set("jwt_id", claims.JTI), with a mutant that takes the user id from the
\* embedded claims.Subject.
ContextOfSubject(claims) ==
    [user_id |-> claims.RegisteredClaims.Subject, user_id_type |-> "uuid.UUID",
     user_email |-> claims.Email, jwt_id |-> claims.JTI, set |-> TRUE]
ContextOf(claims) ==
    [user_id |-> claims.UserID, user_id_type |-> "uuid.UUID",
     user_email |-> claims.Email, jwt_id |-> claims.JTI, set |-> TRUE]

\* JWTAuthMiddleware on a request with the Authorization header h at time t:
\* the c.JSON answer (GoesOn for none), whether c.Abort() was called, whether
\* c.Next() ran the handlers behind it, and the context it leaves.
Gate(reply, aborted, next, ctx) ==
    [reply |-> reply, aborted |-> aborted, next |-> next, ctx |-> ctx]
JWTAuthGate(h, t) ==
    LET authHeader == GetHeader(h)
        tokenParts == SplitN(authHeader)
        tokenString == TrimSpace(tokenParts[2]) IN
    IF authHeader = <<>>
    THEN Gate(Reply(401, "Authorization header is required"), TRUE, FALSE, NoContext)
    ELSE IF \/ Len(tokenParts) # 2
            \/ tokenParts[1] # <<BearerWord>>
            \/ tokenString = <<>>
    THEN Gate(Reply(401, "Invalid authorization header format. Use: Bearer <token>"),
              TRUE, FALSE, NoContext)
    ELSE IF ~ValidateAccessToken(TokenOf(tokenString), t)
    THEN Gate(Reply(401, "Invalid or expired token"), TRUE, FALSE, NoContext)
    ELSE Gate(GoesOn, FALSE, TRUE, ContextOf(DecodeJWTClaims(TokenOf(tokenString))))

\* JWTAuthMiddleware with "Authorization: Bearer tok": the answer of the gate.
JWTAuthMiddleware(tok, t) == JWTAuthGate(BearerHeader(tok), t).reply

\* GetUserIDFromContext: (id, exists), (uuid.Nil, false) when the key is not
\* set or its value is no uuid.UUID.
GetUserIDFromContext(ctx) ==
    IF ~ctx.set \/ ctx.user_id_type # "uuid.UUID" THEN [id |-> "", exists |-> FALSE]
    ELSE [id |-> ctx.user_id, exists |-> TRUE]

RequireAuthAnyUUID(ctx) ==
    IF ~GetUserIDFromContext(ctx).exists
    THEN [ok |-> FALSE, reply |-> Reply(401, "Authentication required"), aborted |-> TRUE]
    ELSE [ok |-> TRUE, reply |-> GoesOn, aborted |-> FALSE]

\* RequireAuth: what it returns, the c.JSON it writes (GoesOn for none) and
\* whether it called c.Abort().
RequireAuth(ctx) ==
    IF ~GetUserIDFromContext(ctx).exists \/ GetUserIDFromContext(ctx).id = ""
    THEN [ok |-> FALSE, reply |-> Reply(401, "Authentication required"), aborted |-> TRUE]
    ELSE [ok |-> TRUE, reply |-> GoesOn, aborted |-> FALSE]

\* The middleware, then ChangePasswordHandler before its writes: RequireAuth,
\* ShouldBindJSON (current password "required", new one "required,min=8"),
\* GetUserByID, VerifyPassword, ValidatePasswordStrength.
ChangePasswordCheck(us, tok, cur, new, t, dbOk) ==
    LET ctx == JWTAuthGate(BearerHeader(tok), t).ctx
        userID == GetUserIDFromContext(ctx).id IN
    IF ~JWTAuthGate(BearerHeader(tok), t).next THEN JWTAuthMiddleware(tok, t)
    ELSE IF ~RequireAuth(ctx).ok THEN RequireAuth(ctx).reply
    ELSE IF Len(cur) = 0 \/ Len(new) < 8 THEN Reply(400, "Invalid request payload")
    ELSE IF ~dbOk \/ GetUserByID(us, userID) = ""
    THEN Reply(404, "User not found")
    ELSE IF ~VerifyPassword(cur, us[userID].hashed_password)
    THEN Reply(401, "Current password is incorrect")
    ELSE IF ~ValidatePasswordStrength(new)
    THEN Reply(400, ValidatePasswordStrengthError(new))
    ELSE GoesOn

\* The ids of the session records of account u.
SessionsOf(table, u) == {r.id : r \in {x \in Rows(table) : x.user_id = u}}

\* ChangePasswordHandler: the checks, HashPassword.
ChangePasswordHandler(tok, cur, new, dbOk) ==
    /\ Accepts
    /\ ChangePasswordCheck(users, tok, cur, new, now, dbOk) = GoesOn
    /\ Continue(Acceptor, [Idle EXCEPT !.kind = "changePassword", !.pc = "update", !.tok = tok,
                      !.uid = GetUserIDFromContext(JWTAuthGate(BearerHeader(tok), now).ctx).id,
                      !.newPassword = new,
                      !.pre = SessionsOf(refresh_tokens,
                                 GetUserIDFromContext(JWTAuthGate(BearerHeader(tok), now).ctx).id)])
    /\ UNCHANGED <<now, users, refresh_tokens, nextId, cut, loggedOut>>
    /\ UNCHANGED <<clientVars, codecVars, answer>>

\* UpdateUserPassword; 500 when it fails.
ChangePasswordUpdate(w, dbOk) ==
    /\ req[w].kind = "changePassword" /\ req[w].pc = "update"
    /\ IF ~dbOk
       THEN /\ Respond(w, 500)
            /\ UNCHANGED users
       ELSE /\ users' = [users EXCEPT ![req[w].uid].hashed_password =
                                          HashPassword(req[w].newPassword, "salt")]
            /\ Continue(w, [req[w] EXCEPT !.pc = "revokeAll", !.newPassword = <<>>])
    /\ UNCHANGED <<now, refresh_tokens, nextId, cut, loggedOut>>
    /\ UNCHANGED <<clientVars, codecVars, answer>>

\* app.Queries.RevokeAllUserRefreshTokens(ctx, userID) (error dropped), 200.
ChangePasswordRevokeAll(w, dbOk) ==
    /\ req[w].kind = "changePassword" /\ req[w].pc = "revokeAll"
    /\ IF dbOk
       THEN /\ refresh_tokens' = RevokeAllUserRefreshTokens(refresh_tokens, req[w].uid)
            /\ cut' = cut \cup {r.token_hash :
                                  r \in {x \in Rows(refresh_tokens) : x.user_id = req[w].uid}}
       ELSE UNCHANGED <<refresh_tokens, cut>>
    /\ Respond(w, 200)
    /\ UNCHANGED <<now, users, nextId, loggedOut>>
    /\ UNCHANGED <<clientVars, codecVars, answer>>

(***************************************************************************)
(* Browser client: frontend/src/lib (api-client.ts, jwt-utils,             *)
(* storage/token-storage.ts)                                               *)
(***************************************************************************)
MaxCalls == 2           \* client operations started in one behaviour
BufferSeconds == 300    \* ensureValidToken: isTokenExpiringSoon(accessToken, 300)

Callers == {"c1", "c2", "c3"}
\* Callers are interchangeable: they make their first calls in this order.
Before == [c \in Callers |-> IF c = "c1" THEN {} ELSE IF c = "c2" THEN {"c1"}
                                                 ELSE {"c1", "c2"}]
\* The moments at which the client acts: an access token issued at 0 is
\* one second outside the buffer, at its edge, and past its expiry.
FirstInstant == AccessTTL - BufferSeconds - 1
ClientInstants == {FirstInstant, AccessTTL - BufferSeconds, AccessTTL + 1}
\* The answers of the server; NoAnswer is a fetch() that rejects.
NoAnswer == 0
Statuses == {NoAnswer, 200, 401, 500}

\* A stored token string.  ok = FALSE is a string that decodeJWT cannot parse.
NoTok == [src |-> "none", n |-> 0, exp |-> 0, ok |-> FALSE]
AccessTok(src, n, t) == [src |-> src, n |-> n, exp |-> t + AccessTTL, ok |-> TRUE]
RefreshTok(src, n) == [src |-> src, n |-> n, exp |-> 0, ok |-> TRUE]
EmptyStorage == [access |-> NoTok, refresh |-> NoTok]

NullPayload == [exp |-> Nil, valid |-> FALSE]
\* decodeJWT: the payload, or null for a string that is not a JWT.
decodeJWT(token) ==
    IF token.ok THEN [exp |-> token.exp, valid |-> TRUE] ELSE NullPayload

\* isTokenExpired (jwt-utils): payload.exp < currentTime.
isTokenExpired(token, t) ==
    IF ~decodeJWT(token).valid THEN TRUE ELSE decodeJWT(token).exp < t

\* UnifiedApiClient.isTokenExpiringSoon: payload.exp - currentTime <= bufferSeconds,
\* with a mutant that leaves the edge of the buffer out.
isTokenExpiringSoonStrict(token, bufferSeconds, t) ==
    IF ~decodeJWT(token).valid THEN TRUE
    ELSE decodeJWT(token).exp - t < bufferSeconds
isTokenExpiringSoon(token, bufferSeconds, t) ==
    IF ~decodeJWT(token).valid THEN TRUE
    ELSE decodeJWT(token).exp - t <= bufferSeconds

\* tokenStorage.hasValidTokens
hasValidTokens(st) == st.access # NoTok /\ st.refresh # NoTok

\* The condition of ensureValidToken under which it calls refreshTokens().
NeedsRefresh(token, t) ==
    isTokenExpired(token, t) \/ isTokenExpiringSoon(token, BufferSeconds, t)

\* refreshTokens(): TRUE when the caller is handed the promise in flight
\* instead of starting performTokenRefresh, with a mutant without the guard.
JoinsNever(refreshing, promise) == FALSE
JoinsInFlight(refreshing, promise) == refreshing /\ promise # 0

\* A call of request(): where it stands (pc), the requireAuth of its config,
\* what ensureValidToken (pre) and
\* handleUnauthorized (un) did for it and which refresh they await, the
\* Authorization header of each send, and the error it rejects with.
\* decoded and left are history: whether decodeJWT read the stored access
\* token when the call began, and that token's exp - now at that moment.
NoCall == [pc |-> "idle", kind |-> "", requireAuth |-> FALSE,
           decoded |-> FALSE, left |-> 0,
           pre |-> "none", preFlight |-> 0, un |-> "none", unFlight |-> 0,
           sends |-> <<>>, error |-> ""]

\* The promise of the call r settles: resolved, or rejected with an error.
Settled(r, pc, error) == [r EXCEPT !.pc = pc, !.error = error]

\* logout(): try { await this.request('/auth/logout', ...) } catch (error)
\* { console.warn(...) }, with a mutant whose catch block rethrows.
logoutRethrows(error) == error
logoutCatch(error) == ""

Thrown(kind, error) == IF kind = "logout" THEN logoutCatch(error) ELSE error

\* What `settled` says of a call r that settled in this step: the code of
\* the AuthError it rejected with ("" when it resolved), how its refreshes
\* went, and how many times it had been sent.
\* thrown is what the method the caller invoked throws to it:
\* authenticatedRequest() lets the error of request() through, logout()
\* catches it (console.warn) and returns.
Outcome(r) == [kind |-> r.kind, error |-> r.error, thrown |-> Thrown(r.kind, r.error),
               pre |-> r.pre, un |-> r.un, sends |-> Len(r.sends)]

IsSettled(r) == r.pc \in {"resolved", "rejected"}

\* The calls after a step: a settled call leaves its outcome in `settled`
\* and its caller free again.
Finish(calls) ==
    /\ call' = [c \in Callers |-> IF IsSettled(calls[c])
                                   THEN [NoCall EXCEPT !.pc = "done"] ELSE calls[c]]
    /\ settled' = {Outcome(calls[c]) : c \in {x \in Callers : IsSettled(calls[x])}}

Free(c) == call[c].pc \in {"idle", "done"}
Pending(f) == f \in DOMAIN flights /\ flights[f].state = "pending"

InitClientVars ==
    /\ cnow = FirstInstant
    /\ storage \in {EmptyStorage,
                    [access |-> AccessTok("init", 0, 0), refresh |-> RefreshTok("init", 0)],
                    [access |-> [AccessTok("init", 0, 0) EXCEPT !.ok = FALSE],
                     refresh |-> RefreshTok("init", 0)]}
    /\ isRefreshing = FALSE
    /\ refreshPromise = 0
    /\ flights = <<>>
    /\ call = [c \in Callers |-> NoCall]
    /\ ncalls = 0
    /\ settled = {}

CTick(t) ==
    /\ t > cnow
    /\ cnow' = t
    /\ settled' = {}
    /\ UNCHANGED <<storage, isRefreshing, refreshPromise, flights, call, ncalls>>
    /\ UNCHANGED <<serverVars, codecVars, answer>>

\* The header request() attaches: getAccessToken() when requireAuth or
\* hasValidTokens(), and only a non-empty token.
Bearer(st, requireAuth) ==
    IF requireAuth \/ hasValidTokens(st) THEN st.access ELSE NoTok

\* refreshTokens() called by c: joins the flight in progress, or sets the
\* flags and starts performTokenRefresh, which POSTs /auth/refresh with the
\* stored refresh token.  which is "pre" (ensureValidToken) or "un"
\* (handleUnauthorized).
refreshTokens(c, which, base) ==
    IF JoinsInFlight(isRefreshing, refreshPromise)
    THEN /\ Finish([call EXCEPT ![c] =
                 IF which = "pre"
                 THEN [base EXCEPT !.pc = "awaitRefresh", !.pre = "wait",
                                   !.preFlight = refreshPromise]
                 ELSE [base EXCEPT !.pc = "awaitRefresh", !.un = "wait",
                                   !.unFlight = refreshPromise]])
         /\ UNCHANGED <<isRefreshing, refreshPromise, flights>>
    ELSE /\ isRefreshing' = TRUE
         /\ refreshPromise' = Len(flights) + 1
         /\ flights' = Append(flights, [rt |-> storage.refresh, state |-> "pending"])
         /\ Finish([call EXCEPT ![c] =
                 IF which = "pre"
                 THEN [base EXCEPT !.pc = "awaitRefresh", !.pre = "wait",
                                   !.preFlight = Len(flights) + 1]
                 ELSE [base EXCEPT !.pc = "awaitRefresh", !.un = "wait",
                                   !.unFlight = Len(flights) + 1]])

\* authenticatedRequest() (kind "request") or logout() (kind "logout"):
\* request() with requireAuth, from its start to the first network wait:
\* ensureValidToken, then either the refresh or the send.  logout() runs
\* clearAuthState() in its finally block when its request() has settled.
\* login() and register() (kind "login"): request() with requireAuth:
\* false, which goes to its send at once.
Call(c, kind) ==
    /\ Free(c)
    /\ \A b \in Before[c] : call[b].pc # "idle"
    /\ ncalls < MaxCalls
    /\ ncalls' = ncalls + 1
    /\ LET base == [NoCall EXCEPT !.kind = kind, !.requireAuth = (kind # "login"),
                                  !.decoded = decodeJWT(storage.access).valid,
                                  !.left = storage.access.exp - cnow] IN
       IF kind = "login"
       THEN /\ Finish([call EXCEPT ![c] = [base EXCEPT !.pc = "sent",
                                              !.sends = <<Bearer(storage, FALSE)>>]])
            /\ UNCHANGED <<storage, isRefreshing, refreshPromise, flights>>
       ELSE IF storage.access = NoTok \/ storage.refresh = NoTok
       THEN /\ Finish([call EXCEPT ![c] = Settled(base, "rejected", "TOKEN_EXPIRED")])
            /\ storage' = IF kind = "logout" THEN EmptyStorage ELSE storage
            /\ UNCHANGED <<isRefreshing, refreshPromise, flights>>
       ELSE IF NeedsRefresh(storage.access, cnow)
       THEN /\ refreshTokens(c, "pre", base)
            /\ UNCHANGED storage
       ELSE /\ Finish([call EXCEPT ![c] = [base EXCEPT !.pc = "sent",
                                              !.sends = <<Bearer(storage, TRUE)>>]])
            /\ UNCHANGED <<storage, isRefreshing, refreshPromise, flights>>
    /\ UNCHANGED cnow
    /\ UNCHANGED <<serverVars, codecVars, answer>>

\* handleErrorResponse: the code of the AuthError thrown for a non-2xx answer
\* (the answers here are 401 and 500).
handleErrorResponse(status) ==
    CASE status = 401 -> "UNAUTHORIZED"
      [] status = 422 -> "VALIDATION_ERROR"
      [] status = 404 -> "USER_NOT_FOUND"
      [] OTHER -> "SERVER_ERROR"

\* AuthError.getUserFriendlyMessage of an error with the code and message.
getUserFriendlyMessage(code, message) ==
    CASE code = "INVALID_CREDENTIALS" -> "Invalid email or password. Please try again."
      [] code = "TOKEN_EXPIRED" -> "Your session has expired. Please log in again."
      [] code = "NETWORK_ERROR" -> "Unable to connect. Please check your internet connection."
      [] code = "EMAIL_NOT_VERIFIED" -> "Please verify your email address before signing in."
      [] code = "USER_NOT_FOUND" -> "No account found with this email address."
      [] code = "VALIDATION_ERROR" -> message
      [] OTHER -> "Something went wrong. Please try again."

\* AuthError.fromApiError for the TypeError of a rejected fetch(): it has no
\* response; NETWORK_ERROR when navigator.onLine is false.
fromApiError(onLine) ==
    IF ~onLine THEN "NETWORK_ERROR" ELSE "SERVER_ERROR"

\* The code of the AuthError request() rejects with when its fetch() did not
\* end in a 2xx answer.
RequestError(status, onLine) ==
    IF status = NoAnswer THEN fromApiError(onLine) ELSE handleErrorResponse(status)

\* request(): if (response.status === 401 && requireAuth), with a mutant
\* that takes every 401.
UnauthorizedAny(status, requireAuth) == status = 401
Unauthorized(status, requireAuth) == status = 401 /\ requireAuth

\* The answer to the request of c arrives.  A 401 to a send made with
\* requireAuth runs handleUnauthorized; the resend is made with
\* requireAuth: false, so any answer to it is final.  login() and
\* register() store the pair of a 2xx answer with setTokens.
Response(c, status, onLine) ==
    /\ call[c].pc = "sent"
    /\ LET base == call[c] IN
       IF Unauthorized(status, call[c].requireAuth)
       THEN IF storage.refresh = NoTok
            THEN /\ storage' = EmptyStorage
                 /\ Finish([call EXCEPT ![c] =
                        Settled([base EXCEPT !.un = "norefresh"], "rejected", "TOKEN_EXPIRED")])
                 /\ UNCHANGED <<isRefreshing, refreshPromise, flights>>
            ELSE /\ refreshTokens(c, "un", base)
                 /\ UNCHANGED storage
       ELSE /\ Finish([call EXCEPT ![c] =
                   IF status = 200
                   THEN Settled(base, "resolved", "")
                   ELSE Settled(base, "rejected", RequestError(status, onLine))])
            /\ storage' = IF base.kind = "logout" THEN EmptyStorage
                          ELSE IF base.kind = "login" /\ status = 200
                          THEN [access |-> AccessTok("login", Cardinality(Before[c]) + 1, cnow),
                                refresh |-> RefreshTok("login", Cardinality(Before[c]) + 1)]
                          ELSE storage
            /\ UNCHANGED <<isRefreshing, refreshPromise, flights>>
    /\ UNCHANGED <<cnow, ncalls>>
    /\ UNCHANGED <<serverVars, codecVars, answer>>

\* What a caller that awaited a flight does once the flight has settled and
\* refreshTokens() has returned or thrown to it; status is the answer to the
\* POST /auth/refresh and st the storage then.
\* After ensureValidToken the request is sent, and a failure of the refresh
\* leaves request() as it was thrown by the request of performTokenRefresh;
\* after handleUnauthorized the request is sent again through
\* request(endpoint, {...config, requireAuth: false}), and a failure is
\* rethrown as AuthError.refreshFailed().
AfterRefresh(r, status, onLine, st) ==
    LET ok == status = 200 IN
    IF r.pre = "wait"
    THEN IF ok
         THEN [r EXCEPT !.pc = "sent", !.pre = "ok", !.preFlight = 0,
                        !.sends = <<Bearer(st, TRUE)>>]
         ELSE Settled([r EXCEPT !.pre = "fail"], "rejected", RequestError(status, onLine))
    ELSE IF ok
         THEN [r EXCEPT !.pc = "sent", !.un = "ok", !.unFlight = 0,
                        !.requireAuth = FALSE,
                        !.sends = Append(r.sends, Bearer(st, FALSE))]
         ELSE Settled([r EXCEPT !.un = "fail"], "rejected", "REFRESH_FAILED")

Awaits(c, f) ==
    /\ call[c].pc = "awaitRefresh"
    /\ \/ call[c].pre = "wait" /\ call[c].preFlight = f
       \/ call[c].un = "wait" /\ call[c].unFlight = f

\* The storage once the answer to flight f has been processed: on success
\* performTokenRefresh stores the new pair; on failure every caller that
\* awaits the flight inside handleUnauthorized runs clearAuthState(), and so
\* does the finally block of every logout() that awaits it.  (With a mutant
\* that stores the new access token only.)
StorageAfterRefreshAccessOnly(f, ok) ==
    IF ok
    THEN [storage EXCEPT !.access = AccessTok("refresh", f, cnow)]
    ELSE IF \E c \in Callers : Awaits(c, f) /\ (call[c].un = "wait" \/ call[c].kind = "logout")
    THEN EmptyStorage
    ELSE storage
StorageAfterRefresh(f, ok) ==
    IF ok
    THEN [access |-> AccessTok("refresh", f, cnow), refresh |-> RefreshTok("refresh", f)]
    ELSE IF \E c \in Callers : Awaits(c, f) /\ (call[c].un = "wait" \/ call[c].kind = "logout")
    THEN EmptyStorage
    ELSE storage

RefreshSettleStale(f, status, onLine) ==
    /\ Pending(f)
    /\ flights' = [flights EXCEPT ![f] = [rt |-> NoTok, state |-> "done"]]
    /\ isRefreshing' = FALSE
    /\ UNCHANGED refreshPromise
    /\ storage' = StorageAfterRefresh(f, status = 200)
    /\ Finish([c \in Callers |->
                  IF Awaits(c, f)
                  THEN AfterRefresh(call[c], status, onLine, StorageAfterRefresh(f, status = 200))
                  ELSE call[c]])
    /\ UNCHANGED <<cnow, ncalls>>
    /\ UNCHANGED <<serverVars, codecVars, answer>>

\* The answer to POST /auth/refresh of flight f arrives: performTokenRefresh
\* stores the new pair or throws; the starter's finally block resets the
\* flags; every caller awaiting the promise continues.  (With a mutant whose
\* finally block leaves the promise in place.)
RefreshSettle(f, status, onLine) ==
    /\ Pending(f)
    /\ flights' = [flights EXCEPT ![f] = [rt |-> NoTok, state |-> "done"]]
    /\ isRefreshing' = FALSE
    /\ refreshPromise' = 0
    /\ storage' = StorageAfterRefresh(f, status = 200)
    /\ Finish([c \in Callers |->
                  IF Awaits(c, f)
                  THEN AfterRefresh(call[c], status, onLine, StorageAfterRefresh(f, status = 200))
                  ELSE call[c]])
    /\ UNCHANGED <<cnow, ncalls>>
    /\ UNCHANGED <<serverVars, codecVars, answer>>

(***************************************************************************)
(* Token codec and auth gate on their own: a token is made by the          *)
(* generators from drawn arguments, possibly by a manager with another     *)
(* secret, issuer or audience, and one of the functions is applied to it.  *)
(***************************************************************************)
\* How the token differs from one this manager issues.
Tampers == {"none", "key", "iss", "aud", "malformed"}

\* How the token string is put into the Authorization header.
Shapes == {"absent", "empty", "Bearer", "Bearer ", "Bearer  ", "tok", "Basic tok", "Bearertok",
           "Bearer tok", "Bearer  tok", "Bearer tok ", "Bearer tok tok", " Bearer tok"}

\* The moments of validation: the token is issued at 0; the last second of
\* each lifetime and its end.
CodecInstants == {0, AccessTTL - 1, AccessTTL, RefreshTTL - 1, RefreshTTL}

\* An input is of one family: a token and the moment of its validation, a
\* password put together for the strength check, a digest and the password
\* presented against it, what a request context holds under "user_id"
\* (nothing, a string, a uuid.UUID; the user id "" stands for uuid.Nil), or
\* an error answer of the server as the client receives it.
NoInput == [family |-> "", userID |-> "", email |-> "", typ |-> "", tamper |-> "",
            shape |-> "", at |-> 0, pw |-> <<>>]
NoOutput == [op |-> "", err |-> "", claims |-> <<>>, userID |-> "", valid |-> FALSE,
             gate |-> Gate(GoesOn, FALSE, FALSE, NoContext)]

\* Strength inputs: one character of each class or none (0), at the ends
\* of the class's ranges; the padding is a space, DEL or a two-byte letter;
\* len counts code points.  Digest inputs: the password hashed, the salt
\* drawn, how the digest differs from the one HashPassword returns, and the
\* password presented.
CodecInputs ==
    [family : {"token"}, userID : Accounts, email : {EmailOf["u1"], "nobody@example.com"},
     typ : {"access", "refresh"}, tamper : Tampers, shape : Shapes, at : CodecInstants,
     pw : {<<>>}]
    \cup {[NoInput EXCEPT !.family = "strength", !.pw = x] :
            x \in [upper : {0, 65, 90}, lower : {0, 97, 122}, digit : {0, 48, 57},
                   special : {0, 33, 47, 58, 64, 91, 96, 123, 126},
                   pad : {32, 127, 233}, len : {7, 8, 128, 129}]}
    \cup {[NoInput EXCEPT !.family = "digest", !.pw = x] :
            x \in [password : Passwords \cup {<<>>, <<112, 225, 115, 115>>},
                   presented : Passwords \cup {<<>>, <<112, 225, 115, 115>>},
                   salt : {"salt", "other salt"},
                   damage : {"none", "no dollar", "bcrypt", "five fields", "seven fields",
                             "algorithm", "version", "version text", "parameters short",
                             "parameters text", "parallelism 256", "salt", "hash",
                             "text before", "text after version", "other parameters",
                             "no rounds", "empty hash"}]}
    \cup {[NoInput EXCEPT !.family = "answer", !.pw = x] :
            x \in [status : {400, 401, 404, 409, 422, 500},
                   error : {"Invalid email or password", "User not found",
                            "Invalid or expired refresh token"}]}
    \cup {[NoInput EXCEPT !.family = "context", !.userID = u, !.pw = [held |-> h]] :
            u \in Accounts \cup {""}, h \in {"absent", "string", "uuid.UUID"}}

\* The password of a strength input.
PasswordFor(in) ==
    LET head == SelectSeq(<<in.pw.upper, in.pw.lower, in.pw.digit, in.pw.special>>,
                          LAMBDA c : c # 0) IN
    head \o [i \in 1..(in.pw.len - Len(head)) |-> in.pw.pad]

\* The digest of a digest input, as the pieces between its dollar signs.
DigestFor(in) ==
    LET d == HashPassword(in.pw.password, in.pw.salt)
        Text(t) == Piece(<<t>>, <<>>, <<>>)
        dmg == in.pw.damage IN
    CASE dmg = "none" -> d
      [] dmg = "no dollar" -> <<Text("invalid-hash")>>
      [] dmg = "bcrypt" -> <<Text(""), Text("2a"), Text("10"), Text("N9qo8uLOickgx2ZMRZoMye")>>
      [] dmg = "five fields" -> SubSeq(d, 1, 5)
      [] dmg = "seven fields" -> d \o <<Text("extra")>>
      [] dmg = "algorithm" -> [d EXCEPT ![2] = Text("argon2i")]
      [] dmg = "version" -> [d EXCEPT ![3] = Piece(<<"v=">>, <<16>>, <<>>)]
      [] dmg = "version text" -> [d EXCEPT ![3] = Text("v=x")]
      [] dmg = "parameters short" ->
            [d EXCEPT ![4] = Piece(<<"m=", ",t=">>, <<65536, 3>>, <<>>)]
      [] dmg = "parameters text" -> [d EXCEPT ![4] = Text("m=x,t=3,p=4")]
      [] dmg = "parallelism 256" -> [d EXCEPT ![4].num = <<65536, 3, 256>>]
      [] dmg = "salt" -> [d EXCEPT ![5] = Text("!!!")]
      [] dmg = "hash" -> [d EXCEPT ![6] = Text("!!!")]
      [] dmg = "text before" -> [d EXCEPT ![1] = Text("junk")]
      [] dmg = "text after version" -> [d EXCEPT ![3].lit = <<"v=", "junk">>]
      [] dmg = "other parameters" -> [d EXCEPT ![4].num = <<1024, 1, 1>>]
      [] dmg = "no rounds" -> [d EXCEPT ![4].num = <<65536, 0, 4>>]
      [] dmg = "empty hash" -> [d EXCEPT ![6] = Piece(<<>>, <<>>, <<>>)]

InitCodecVars == codecIn = NoInput /\ codecOut = NoOutput

\* The token of the input: issued at time 0 by GenerateAccessToken(userID,
\* email) or GenerateRefreshToken(userID) of a manager that differs from the
\* validating one as tamper says; "malformed" is a string that is no JWT.
IssuedFor(in) ==
    LET tok == IF in.typ = "access"
               THEN GenerateAccessToken(in.userID, in.email, 0, 1)
               ELSE GenerateRefreshToken(in.userID, 0, 1) IN
    CASE in.tamper = "none" -> tok
      [] in.tamper = "key" -> [tok EXCEPT !.key = "other-secret"]
      [] in.tamper = "iss" -> [tok EXCEPT !.iss = "other-issuer"]
      [] in.tamper = "aud" -> [tok EXCEPT !.aud = "other-audience"]
      [] in.tamper = "malformed" -> Malformed

\* The Authorization header of the input.
HeaderFor(in) ==
    LET tok == IssuedFor(in) IN
    CASE in.shape = "absent" -> NoHeader
      [] in.shape = "empty" -> Header(<<>>)
      [] in.shape = "Bearer" -> Header(<<BearerWord>>)
      [] in.shape = "Bearer " -> Header(<<BearerWord, Space>>)
      [] in.shape = "Bearer  " -> Header(<<BearerWord, Space, Space>>)
      [] in.shape = "tok" -> Header(<<tok>>)
      [] in.shape = "Basic tok" -> Header(<<BasicWord, Space, tok>>)
      [] in.shape = "Bearertok" -> Header(<<BearerWord, tok>>)
      [] in.shape = "Bearer tok" -> BearerHeader(tok)
      [] in.shape = "Bearer  tok" -> Header(<<BearerWord, Space, Space, tok>>)
      [] in.shape = "Bearer tok " -> Header(<<BearerWord, Space, tok, Space>>)
      [] in.shape = "Bearer tok tok" -> Header(<<BearerWord, Space, tok, Space, tok>>)
      [] in.shape = " Bearer tok" -> Header(<<Space, BearerWord, Space, tok>>)

Returns(out) ==
    /\ codecOut' = out
    /\ UNCHANGED codecIn
    /\ UNCHANGED <<serverVars, clientVars, answer>>

\* jwtManager.ValidateAccessToken(tokenString): (claims, err).
DoValidateAccessToken ==
    /\ codecIn.family = "token"
    /\ LET err == ValidateAccessTokenError(IssuedFor(codecIn), codecIn.at) IN
       Returns([NoOutput EXCEPT !.op = "ValidateAccessToken", !.err = err,
                   !.claims = IF err = "" THEN DecodeJWTClaims(IssuedFor(codecIn)) ELSE <<>>])

\* jwtManager.ValidateRefreshToken(tokenString): (claims, err).
DoValidateRefreshToken ==
    /\ codecIn.family = "token"
    /\ LET err == ValidateRefreshTokenError(IssuedFor(codecIn), codecIn.at) IN
       Returns([NoOutput EXCEPT !.op = "ValidateRefreshToken", !.err = err,
                   !.claims = IF err = "" THEN DecodeRegisteredClaims(IssuedFor(codecIn)) ELSE <<>>])

\* jwtManager.ExtractUserIDFromRefreshToken(tokenString): (userID, err).
DoExtractUserIDFromRefreshToken ==
    /\ codecIn.family = "token"
    /\ LET userID == ExtractUserIDFromRefreshToken(IssuedFor(codecIn), codecIn.at) IN
       Returns([NoOutput EXCEPT !.op = "ExtractUserIDFromRefreshToken", !.userID = userID,
                   !.err = IF userID = "" THEN "error" ELSE ""])

\* A request with the header passes through JWTAuthMiddleware.
DoJWTAuthMiddleware ==
    /\ codecIn.family = "token"
    /\ Returns([NoOutput EXCEPT !.op = "JWTAuthMiddleware",
                   !.gate = JWTAuthGate(HeaderFor(codecIn), codecIn.at)])

\* A handler calls RequireAuth(c) on a context that holds the input's value.
DoRequireAuth ==
    /\ codecIn.family = "context"
    /\ LET ctx == IF codecIn.pw.held = "absent" THEN NoContext
                  ELSE [NoContext EXCEPT !.set = TRUE, !.user_id = codecIn.userID,
                                         !.user_id_type = codecIn.pw.held]
           r == RequireAuth(ctx) IN
       Returns([NoOutput EXCEPT !.op = "RequireAuth", !.valid = r.ok,
                   !.gate = Gate(r.reply, r.aborted, FALSE, ctx)])

\* handleErrorResponse(response) of the client: the AuthError thrown, with
\* the message it shows to the user.
DoHandleErrorResponse ==
    /\ codecIn.family = "answer"
    /\ LET code == handleErrorResponse(codecIn.pw.status) IN
       Returns([NoOutput EXCEPT !.op = "handleErrorResponse", !.err = code,
                   !.claims = [message |-> codecIn.pw.error,
                               statusCode |-> codecIn.pw.status,
                               friendly |-> getUserFriendlyMessage(code, codecIn.pw.error)]])

\* passwordManager.ValidatePasswordStrength(password): err.
DoValidatePasswordStrength ==
    /\ codecIn.family = "strength"
    /\ Returns([NoOutput EXCEPT !.op = "ValidatePasswordStrength",
                   !.err = ValidatePasswordStrengthError(PasswordFor(codecIn)),
                   !.valid = ValidatePasswordStrength(PasswordFor(codecIn))])

\* passwordManager.VerifyPassword(password, encodedHash): (valid, err).
DoVerifyPassword ==
    /\ codecIn.family = "digest"
    /\ LET result == VerifyPasswordResult(codecIn.pw.presented, DigestFor(codecIn)) IN
       Returns([NoOutput EXCEPT !.op = "VerifyPassword", !.err = result.err,
                   !.valid = result.valid])

(***************************************************************************)
(* Specifications                                                          *)
(***************************************************************************)
InitServer == InitServerVars /\ InitClientVars /\ storage = EmptyStorage /\ InitCodecVars
InitClient == InitClientVars /\ InitServerVars /\ InitCodecVars
InitCodec == InitServerVars /\ InitClientVars /\ storage = EmptyStorage
             /\ codecIn \in CodecInputs /\ codecOut = NoOutput

NextServer ==
    \/ \E t \in ServerInstants : Tick(t)
    \/ \E e \in LoginEmails, p \in Passwords, dbOk \in BOOLEAN, createOk \in BOOLEAN :
          LoginHandler(e, p, dbOk, createOk)
    \/ \E tok \in handed \cup {ForgedRefresh, NoToken}, dbOk \in BOOLEAN :
          RefreshTokenHandler(tok, dbOk)
    \/ \E w \in Workers, dbOk \in BOOLEAN : RefreshRevoke(w, dbOk)
    \/ \E w \in Workers, dbOk \in BOOLEAN : RefreshCreate(w, dbOk)
    \/ \E tok \in IssuedRefresh \cup {NoToken}, dbOk \in BOOLEAN : LogoutHandler(tok, dbOk)
    \/ \E tok \in handed, cur \in Passwords, new \in Passwords, dbOk \in BOOLEAN :
          ChangePasswordHandler(tok, cur, new, dbOk)
    \/ \E w \in Workers, dbOk \in BOOLEAN : ChangePasswordUpdate(w, dbOk)
    \/ \E w \in Workers, dbOk \in BOOLEAN : ChangePasswordRevokeAll(w, dbOk)

NextClient ==
    \/ \E t \in ClientInstants : CTick(t)
    \/ \E c \in Callers, kind \in {"request", "logout", "login"} : Call(c, kind)
    \/ \E c \in Callers, status \in Statuses, onLine \in BOOLEAN : Response(c, status, onLine)
    \/ \E f \in DOMAIN flights, status \in Statuses, onLine \in BOOLEAN : RefreshSettle(f, status, onLine)

\* Registration, login and refresh against a users table that starts
\* without accounts, or with one account, active or deactivated.
InitRegister ==
    /\ now = 0
    /\ \E row \in {NoUser} \cup [email : {EmailOf["u1"]},
                                 hashed_password : {HashPassword(InitialPassword, "salt")},
                                 is_active : BOOLEAN] :
          users = [u \in Accounts |-> IF u = "u1" THEN row ELSE NoUser]
    /\ refresh_tokens = <<>>
    /\ nextId = 1
    /\ req = [w \in Workers |-> Idle]
    /\ handed = {} /\ redeemed = {} /\ cut = {} /\ loggedOut = {}
    /\ answer = Unanswered
    /\ InitClientVars /\ storage = EmptyStorage /\ InitCodecVars

NextRegister ==
    \/ \E e \in {EmailOf[u] : u \in Accounts}, p \in Passwords, dbOk \in BOOLEAN :
          RegisterHandler(e, p, dbOk)
    \/ \E w \in Workers, dbOk \in BOOLEAN : RegisterCreateUser(w, dbOk)
    \/ \E w \in Workers, dbOk \in BOOLEAN : RegisterCreateToken(w, dbOk)
    \/ \E e \in Emails, p \in Passwords, dbOk \in BOOLEAN, createOk \in BOOLEAN :
          LoginHandler(e, p, dbOk, createOk)
    \/ \E e \in Emails, p \in Passwords, dbOk \in BOOLEAN : LoginRejected(e, p, dbOk)
    \/ \E tok \in IssuedRefresh, dbOk \in BOOLEAN : RefreshTokenHandler(tok, dbOk)
    \/ \E w \in Workers, dbOk \in BOOLEAN : RefreshRevoke(w, dbOk)
    \/ \E w \in Workers, dbOk \in BOOLEAN : RefreshCreate(w, dbOk)

\* The session store with the housekeeping job running: u1 has logged in at
\* time 0 and holds the pair of that login.
InitSessions ==
    /\ now = 0
    /\ users = [u \in Accounts |->
                  [email |-> EmailOf[u], hashed_password |-> HashPassword(InitialPassword, "salt"),
                   is_active |-> TRUE]]
    /\ refresh_tokens = CreateRefreshToken(<<>>, 0, "u1",
                             TokenHash(GenerateRefreshToken("u1", 0, 0)), RefreshTTL, 0)
    /\ nextId = 1
    /\ req = [w \in Workers |-> Idle]
    /\ handed = {GenerateAccessToken("u1", EmailOf["u1"], 0, -1),
                 GenerateRefreshToken("u1", 0, 0)}
    /\ redeemed = {} /\ cut = {} /\ loggedOut = {}
    /\ answer = Unanswered
    /\ InitClientVars /\ storage = EmptyStorage /\ InitCodecVars

NextSessions ==
    \/ \E t \in ServerInstants \cup {RefreshTTL + 1} : Tick(t)
    \/ \E tok \in IssuedRefresh, dbOk \in BOOLEAN : RefreshTokenHandler(tok, dbOk)
    \/ \E w \in Workers, dbOk \in BOOLEAN : RefreshRevoke(w, dbOk)
    \/ \E w \in Workers, dbOk \in BOOLEAN : RefreshCreate(w, dbOk)
    \/ \E tok \in IssuedRefresh, dbOk \in BOOLEAN : LogoutHandler(tok, dbOk)
    \/ DeleteExpiredRefreshTokens
    \/ \E dbOk \in BOOLEAN : ClientLogout(dbOk)

NextCodec ==
    \/ DoValidateAccessToken
    \/ DoValidateRefreshToken
    \/ DoExtractUserIDFromRefreshToken
    \/ DoJWTAuthMiddleware
    \/ DoValidatePasswordStrength
    \/ DoVerifyPassword
    \/ DoRequireAuth
    \/ DoHandleErrorResponse

SpecServer == InitServer /\ [][NextServer]_vars
SpecClient == InitClient /\ [][NextClient]_vars
SpecCodec == InitCodec /\ [][NextCodec]_vars
SpecRegister == InitRegister /\ [][NextRegister]_vars
SpecSessions == InitSessions /\ [][NextSessions]_vars

\* The session store with what the server schedules by itself.  main()
\* builds the app and the router and calls r.Run: the goroutine of an
\* accepted request goes on to its next store call, and the clock goes on.
\* Nothing in main(), SetupRouter or the handlers starts a timer or a
\* goroutine that calls DeleteExpiredRefreshTokens, so the purge is a step
\* that may be taken and that nothing makes happen.
SpecSessionsLive ==
    /\ InitSessions /\ [][NextSessions]_vars
    /\ WF_vars(\E t \in ServerInstants \cup {RefreshTTL + 1} : Tick(t))
    /\ WF_vars(\E w \in Workers, dbOk \in BOOLEAN : RefreshRevoke(w, dbOk))
    /\ WF_vars(\E w \in Workers, dbOk \in BOOLEAN : RefreshCreate(w, dbOk))

\* The client with what its code schedules by itself.  request() awaits
\* fetch(url, {...options, headers}) with no signal and no timer, and
\* refreshTokens() awaits the promise of performTokenRefresh: while a fetch
\* is outstanding the client has no step of its own, and the arrival of an
\* answer or of a network error is the network's step.  Only the clock is
\* sure to go on.
SpecClientLive ==
    InitClient /\ [][NextClient]_vars /\ WF_vars(\E t \in ClientInstants : CTick(t))

(***************************************************************************)
(* Properties                                                              *)
(***************************************************************************)
PendingFlights == {f \in DOMAIN flights : flights[f].state = "pending"}
Awaiting == {c \in Callers : call[c].pc = "awaitRefresh"}
Awaiters(f) == {c \in Callers : Awaits(c, f)}

\* C1 (SpecClient): callers that need a refresh at the same time share one
\* POST /auth/refresh.  After every step at most one refresh is in flight and
\* every waiting caller waits for that one; and when the refresh f settles,
\* either all its waiters go on to send with the pair that f stored, or all
\* of them reject on the failure of that refresh.
C1_SingleFlight ==
    [][/\ Cardinality(PendingFlights') <= 1
       /\ \A c \in Awaiting' : \E f \in PendingFlights' : Awaits(c, f)'
       /\ \A f \in PendingFlights \ PendingFlights' :
             \/ /\ storage' = [access |-> AccessTok("refresh", f, cnow),
                               refresh |-> RefreshTok("refresh", f)]
                /\ \A c \in Awaiters(f) :
                      /\ call'[c].pc = "sent"
                      /\ call'[c].sends[Len(call'[c].sends)] = storage'.access
             \/ /\ settled' # {}
                /\ \A o \in settled' : o.pre = "fail" \/ o.un = "fail"
                /\ \A c \in Awaiters(f) : call'[c].pc = "done"]_vars

\* Two callers were sent with the pair of the one refresh they both awaited.
C1_Witness ==
    /\ Len(flights) = 1 /\ PendingFlights = {}
    /\ \E c \in Callers, d \in Callers :
          /\ c # d
          /\ call[c].pc = "sent" /\ call[c].pre = "ok"
          /\ call[d].pc = "sent" /\ call[d].pre = "ok"
          /\ call[c].sends = <<storage.access>>
          /\ call[d].sends = <<storage.access>>
          /\ storage.access = AccessTok("refresh", 1, cnow)

\* C2 (SpecServer): once a refresh with the token T has been answered 200,
\* the refresh handler answers every later request with T 401.
C2_RotationIsOneTime ==
    \A tok \in redeemed : \A dbOk \in BOOLEAN :
        RefreshCheck(users, refresh_tokens, tok, now, dbOk).status = 401

\* C3 (SpecServer): once the TTL of an issued access token has elapsed,
\* ValidateAccessToken rejects it and the middleware answers 401.
C3_AccessTokenExpires ==
    \A tok \in IssuedAccess :
        now >= tok.iat + AccessTTL =>
            /\ ~ValidateAccessToken(tok, now)
            /\ JWTAuthMiddleware(tok, now).status = 401

\* C4 (SpecServer): after RevokeAllUserRefreshTokens(A) has completed, the
\* lookup finds no record for any hash that belonged to A before the call,
\* and a refresh with a token of such a hash is answered 401.
C4_RevokeAllCutsEverySession ==
    /\ \A h \in cut : GetRefreshToken(refresh_tokens, h, now) = NoRow
    /\ \A tok \in handed : TokenHash(tok) \in cut =>
          \A dbOk \in BOOLEAN :
              RefreshCheck(users, refresh_tokens, tok, now, dbOk).status = 401

\* A revoke-all has covered the hash of a handed-out refresh token whose
\* JWT is still good: the 401 comes from the store lookup.
C4_Witness ==
    \E tok \in IssuedRefresh :
        /\ TokenHash(tok) \in cut
        /\ ExtractUserIDFromRefreshToken(tok, now) # ""
        /\ RefreshCheck(users, refresh_tokens, tok, now, TRUE) =
              Reply(401, "Invalid or expired refresh token")

\* C5 (SpecServer): when changePassword answers 200 (the return from its
\* revoke-all step), every session record the account had when the request
\* started is revoked.
C5_PasswordChangeRevokesSessions ==
    [][\A w \in Workers :
          (/\ req[w].kind = "changePassword" /\ req[w].pc = "revokeAll"
           /\ req'[w] = Idle)
          => \A r \in Rows(refresh_tokens') : r.id \in req[w].pre => r.is_revoked]_vars

KnownHashes ==
    {r.token_hash : r \in Rows(refresh_tokens)} \cup {TokenHash(t) : t \in handed}

C7_OneRefreshAndRetry ==
    [][\A c \in Callers :
          /\ Len(call'[c].sends) <= 2
          /\ Len(call'[c].sends) = 2 /\ Len(call[c].sends) # 2 =>
                /\ call[c].pc = "awaitRefresh" /\ call[c].un = "wait"
                /\ Len(call[c].sends) = 1
                /\ call[c].unFlight \in PendingFlights \ PendingFlights'
          /\ call[c].pc = "sent" /\ Len(call[c].sends) = 2 /\ call'[c] # call[c] =>
                /\ call'[c].pc = "done"
                /\ flights' = flights]_vars

\* A resend was answered 401 and that settled the call.
C7_Witness ==
    /\ \E o \in settled : o.error = "UNAUTHORIZED" /\ o.un = "ok" /\ o.sends = 2
    /\ PendingFlights = {}
    /\ \E c \in Callers : call[c].pc = "done"

\* C8 (SpecClient): when a call rejects because its resend, made after a
\* successful refresh, was answered 401, the credential store is empty.
C8_SecondUnauthorizedClearsSession ==
    \A o \in settled :
        o.un = "ok" /\ o.sends = 2 /\ o.error = "UNAUTHORIZED" => storage = EmptyStorage

\* C9 (SpecClient): when the refresh made for a call fails, in
\* ensureValidToken (the call was not sent) or in handleUnauthorized (it was
\* sent once and is not sent again), the call rejects and the credential
\* store is empty.
C9_RefreshFailureClearsSession ==
    \A o \in settled :
        /\ o.pre = "fail" => o.error # "" /\ o.sends = 0 /\ storage = EmptyStorage
        /\ o.un = "fail" => o.error # "" /\ o.sends = 1 /\ storage = EmptyStorage

\* C10 (SpecClient): a call with requireAuth that finds a decodable access
\* token with exp - now <= 300 sends nothing before its refresh has completed
\* and then carries the access token that refresh stored; with
\* exp - now > 300 it is sent at once, with the stored token and no refresh.
C10_RefreshInsideBuffer ==
    [][\A c \in Callers :
          /\ (Free(c) /\ ~Free(c)' /\ call'[c].requireAuth
              /\ decodeJWT(storage.access).valid) =>
                IF storage.access.exp - cnow <= 300
                THEN /\ call'[c].pc = "awaitRefresh" /\ call'[c].pre = "wait"
                     /\ call'[c].sends = <<>>
                     /\ call'[c].preFlight \in PendingFlights'
                ELSE /\ call'[c].pc = "sent" /\ call'[c].pre = "none"
                     /\ call'[c].sends = <<storage.access>>
                     /\ flights' = flights
          /\ (call[c].pc = "awaitRefresh" /\ call[c].pre = "wait"
              /\ call'[c].pc = "sent") =>
                /\ call[c].preFlight \in PendingFlights \ PendingFlights'
                /\ call'[c].sends = <<storage'.access>>
                /\ storage'.access = AccessTok("refresh", call[c].preFlight, cnow)]_vars

\* A call that began at the edge of the buffer was sent after its refresh.
C10_Witness ==
    \E c \in Callers :
        /\ call[c].pc = "sent" /\ call[c].pre = "ok"
        /\ call[c].decoded /\ call[c].left = BufferSeconds
        /\ call[c].sends = <<storage.access>>
        /\ storage.access.src = "refresh"

\* The token string the middleware takes from a header it finds well formed.
CarriedToken(h) == TokenOf(TrimSpace(SplitN(GetHeader(h))[2]))

\* C11 (SpecCodec): the handlers behind JWTAuthMiddleware run only when the
\* bearer token passed ValidateAccessToken, and then the context holds the
\* token's subject, email and token id; on a rejection the chain is aborted
\* with a 401 and the context holds no identity.
C11_GateAttachesIdentity ==
    codecOut.op = "JWTAuthMiddleware" =>
        /\ codecOut.gate.next =>
              /\ ~codecOut.gate.aborted /\ codecOut.gate.reply = GoesOn
              /\ CarriedToken(HeaderFor(codecIn)) = IssuedFor(codecIn)
              /\ ValidateAccessToken(IssuedFor(codecIn), codecIn.at)
              /\ codecOut.gate.ctx.set /\ RequireAuth(codecOut.gate.ctx).ok
              /\ codecOut.gate.ctx.user_id = IssuedFor(codecIn).sub
              /\ codecOut.gate.ctx.user_email = IssuedFor(codecIn).email
              /\ codecOut.gate.ctx.jwt_id = IssuedFor(codecIn).jti
              /\ codecOut.gate.ctx.user_id = codecIn.userID
              /\ codecOut.gate.ctx.user_email = codecIn.email
        /\ ~codecOut.gate.next =>
              /\ codecOut.gate.aborted /\ codecOut.gate.reply.status = 401
              /\ codecOut.gate.ctx = NoContext /\ ~RequireAuth(codecOut.gate.ctx).ok

\* The gate let a request through and attached the identity of its token.
C11_Witness ==
    /\ codecOut.op = "JWTAuthMiddleware" /\ codecOut.gate.next
    /\ codecIn.shape = "Bearer tok"
    /\ codecOut.gate.ctx.user_id = codecIn.userID
    /\ codecOut.gate.ctx.user_email = "nobody@example.com"

\* "Bearer <non-empty token>": the word Bearer, one space, and a rest that is
\* not only spaces.
WellFormed(value) ==
    /\ Len(value) >= 3
    /\ value[1] = BearerWord /\ value[2] = Space
    /\ \E i \in 3..Len(value) : value[i] # Space

\* The four classes of the gate's answers.
HeaderRequired == Reply(401, "Authorization header is required")
InvalidFormat == Reply(401, "Invalid authorization header format. Use: Bearer <token>")
InvalidToken == Reply(401, "Invalid or expired token")
GateClasses == {HeaderRequired, InvalidFormat, InvalidToken, GoesOn}

\* C12 as stated (SpecCodec): a request without the header is answered
\* "header is required", one whose header is present but not of the form
\* "Bearer <non-empty token>" is answered "invalid format", one whose
\* well-formed header carries a token that fails validation is answered
\* "invalid or expired token", and every other request proceeds.
C12_Original ==
    codecOut.op = "JWTAuthMiddleware" =>
        \A h \in {HeaderFor(codecIn)} :
            /\ codecOut.gate.reply = HeaderRequired <=> ~h.present
            /\ codecOut.gate.reply = InvalidFormat <=> h.present /\ ~WellFormed(h.value)
            /\ codecOut.gate.reply = InvalidToken <=>
                  /\ h.present /\ WellFormed(h.value)
                  /\ ~ValidateAccessToken(CarriedToken(h), codecIn.at)
            /\ codecOut.gate.next <=>
                  /\ h.present /\ WellFormed(h.value)
                  /\ ValidateAccessToken(CarriedToken(h), codecIn.at)

\* C12 (SpecCodec), amended: the gate puts every request in exactly one of
\* four classes, where a header that is present with an empty value is
\* answered like an absent one ("header is required"); the three rejections
\* are 401 answers with pairwise distinct reasons, and only the fourth class
\* proceeds.
C12_GateClasses ==
    /\ Cardinality(GateClasses) = 4
    /\ \A r \in GateClasses \ {GoesOn} : r.status = 401
    /\ codecOut.op = "JWTAuthMiddleware" =>
          \A h \in {HeaderFor(codecIn)} :
              /\ codecOut.gate.reply \in GateClasses
              /\ codecOut.gate.next <=> codecOut.gate.reply = GoesOn
              /\ codecOut.gate.reply = HeaderRequired <=> (~h.present \/ h.value = <<>>)
              /\ codecOut.gate.reply = InvalidFormat <=>
                    h.present /\ h.value # <<>> /\ ~WellFormed(h.value)
              /\ codecOut.gate.reply = InvalidToken <=>
                    /\ h.present /\ WellFormed(h.value)
                    /\ ~ValidateAccessToken(CarriedToken(h), codecIn.at)
              /\ codecOut.gate.next <=>
                    /\ h.present /\ WellFormed(h.value)
                    /\ ValidateAccessToken(CarriedToken(h), codecIn.at)

\* The gate answered "invalid format" to a header with nothing but spaces
\* behind the scheme.
C12_Witness ==
    /\ codecOut.op = "JWTAuthMiddleware"
    /\ codecIn.shape = "Bearer  "
    /\ codecOut.gate.reply = InvalidFormat /\ codecOut.gate.aborted

\* C13 (SpecServer): once POST /auth/logout with the refresh token T has been
\* answered 200, the refresh handler answers every request with T 401.
C13_LogoutRevokesSession ==
    \A tok \in loggedOut : \A dbOk \in BOOLEAN :
        RefreshCheck(users, refresh_tokens, tok, now, dbOk).status = 401

\* C14: a logout() that has completed threw nothing to its caller and left
\* the credential store empty, whether its request got 200, an error status
\* or no answer, its refresh before or after the send failed, or there were
\* no tokens to send.
C14_LogoutAlwaysClears ==
    \A o \in settled : o.kind = "logout" => o.thrown = "" /\ storage = EmptyStorage

\* A logout() whose refresh before the send failed, so that its request was
\* never sent: it completed without throwing.
C14_Witness ==
    \E o \in settled : o.kind = "logout" /\ o.pre = "fail" /\ o.error # "" /\ o.sends = 0
                        /\ o.thrown = "" /\ storage = EmptyStorage
\* C15: a token signed with another secret, or carrying another issuer or
\* audience than the manager's, is rejected by ValidateAccessToken and by
\* ValidateRefreshToken: an error and no claims.
C15_ForeignTokensRejected ==
    /\ codecOut.op \in {"ValidateAccessToken", "ValidateRefreshToken"}
    /\ codecIn.tamper \in {"key", "iss", "aud"}
    => codecOut.err # "" /\ codecOut.claims = <<>>

\* An access token of another issuer, otherwise well-formed, rightly signed
\* and inside its lifetime, was rejected by ValidateAccessToken.
C15_Witness ==
    /\ codecOut.op = "ValidateAccessToken"
    /\ codecIn.typ = "access" /\ codecIn.tamper = "iss" /\ codecIn.at = 0
    /\ codecOut.err = "invalid issuer"

\* C16: ValidateAccessToken of GenerateAccessToken(u, e) before its expiry
\* succeeds with subject u, email e and the manager's issuer and audience;
\* ExtractUserIDFromRefreshToken of GenerateRefreshToken(u) returns u.
C16_RoundTrip ==
    /\ codecIn.tamper = "none" /\ codecIn.typ = "access" /\ codecIn.at < AccessTTL
       /\ codecOut.op = "ValidateAccessToken"
       => /\ codecOut.err = ""
          /\ codecOut.claims # <<>>
          /\ codecOut.claims.UserID = codecIn.userID
          /\ codecOut.claims.Email = codecIn.email
          /\ codecOut.claims.Issuer = Issuer
          /\ codecOut.claims.Audience = Audience
    /\ codecIn.tamper = "none" /\ codecIn.typ = "refresh" /\ codecIn.at < RefreshTTL
       /\ codecOut.op = "ExtractUserIDFromRefreshToken"
       => codecOut.err = "" /\ codecOut.userID = codecIn.userID

\* An access token for u2 with an email of its own, validated in the last
\* second of its lifetime.
C16_Witness ==
    /\ codecIn.tamper = "none" /\ codecIn.typ = "access" /\ codecIn.at = AccessTTL - 1
    /\ codecIn.userID = "u2" /\ codecIn.email = "nobody@example.com"
    /\ codecOut.op = "ValidateAccessToken" /\ codecOut.err = ""
    /\ codecOut.claims.UserID = "u2"
\* C17: RefreshTokenHandler answers a refresh token that passes
\* ValidateRefreshToken but has no valid record in the store exactly as it
\* answers a token that fails the validation: same status, same body.
C17_NoRecordLooksInvalid ==
    \A tok \in IssuedRefresh :
        /\ ValidateRefreshToken(tok, now)
        /\ GetRefreshToken(refresh_tokens, TokenHash(tok), now) = NoRow
        => RefreshCheck(users, refresh_tokens, tok, now, TRUE)
               = RefreshCheck(users, refresh_tokens, ForgedRefresh, now, TRUE)
\* C20 as stated: every error of ValidateAccessToken and ValidateRefreshToken
\* is the one error "invalid or expired token".
C20_Original ==
    /\ codecOut.op \in {"ValidateAccessToken", "ValidateRefreshToken"}
    /\ codecOut.err # ""
    => codecOut.err = "invalid or expired token"

\* C20: the error of a rejected token names the first check that failed:
\* parsing, then the signature, then the expiry, then the audience, then the
\* issuer; it is JWTAuthMiddleware that answers every token rejected by
\* ValidateAccessToken with the same 401 "Invalid or expired token".
C20_ErrorNamesFailedCheck ==
    LET tok == IssuedFor(codecIn)
        parses == IF codecOut.op = "ValidateAccessToken"
                  THEN codecIn.typ = "access" /\ codecIn.tamper # "malformed"
                  ELSE codecIn.tamper # "malformed"
        expired == codecOut.op = "ValidateRefreshToken" /\ codecIn.at >= tok.exp IN
    /\ codecOut.op \in {"ValidateAccessToken", "ValidateRefreshToken"}
       => /\ ~parses => codecOut.err = "token is malformed"
          /\ parses /\ codecIn.tamper = "key" => codecOut.err = "token signature is invalid"
          /\ parses /\ codecIn.tamper # "key" /\ expired => codecOut.err = "token is expired"
          /\ parses /\ ~expired /\ codecIn.tamper = "aud" => codecOut.err = "invalid audience"
          /\ parses /\ ~expired /\ codecIn.tamper = "iss" => codecOut.err = "invalid issuer"
    /\ codecOut.op = "JWTAuthMiddleware" /\ codecIn.shape = "Bearer tok"
       /\ ValidateAccessTokenError(tok, codecIn.at) # ""
       => codecOut.gate.reply = Reply(401, "Invalid or expired token")

\* ValidateRefreshToken rejected a rightly signed, unexpired token of another
\* audience with the error "invalid audience".
C20_Witness ==
    /\ codecOut.op = "ValidateRefreshToken"
    /\ codecIn.typ = "refresh" /\ codecIn.tamper = "aud" /\ codecIn.at < RefreshTTL
    /\ codecOut.err = "invalid audience"
\* C18: LoginHandler answers a login for an email without an active account
\* and a login with a wrong password for an existing account with the same
\* 401 and the same body, hands out no token and adds no session record.
C18_LoginRejectionsAlike ==
    [][LET a == answer'
           unknown == \A u \in Accounts : ~(users[u].email = a.email /\ users[u].is_active)
           wrong == \E u \in Accounts :
                       /\ users[u].email = a.email /\ users[u].is_active
                       /\ users[u].hashed_password # HashPassword(a.password, "salt") IN
       a # answer /\ a.kind = "login" /\ (unknown \/ wrong)
       => /\ a.reply = Reply(401, "Invalid email or password")
          /\ a.access = NoToken /\ a.refresh = NoToken
          /\ refresh_tokens' = refresh_tokens /\ handed' = handed]_vars

\* A login with the wrong password for an account that registered before
\* was answered 401.
C18_Witness ==
    /\ answer.kind = "login" /\ answer.reply.status = 401 /\ answer.storeOk
    /\ \E u \in Accounts :
          /\ users[u].email = answer.email /\ users[u].is_active
          /\ users[u].hashed_password # HashPassword(answer.password, "salt")
          /\ \E r \in Rows(refresh_tokens) : r.user_id = u

\* C19: no two accounts have the same email, and a register request that
\* ends without having created an account, while an account with its email
\* exists and no store call failed on the connection, was answered 409
\* without tokens: of concurrent requests for one new email, every one but
\* the winner gets 409.
C19_RegisterConflict ==
    /\ \A u1 \in Accounts, u2 \in Accounts :
          u1 # u2 /\ users[u1] # NoUser /\ users[u2] # NoUser
          => users[u1].email # users[u2].email
    /\ /\ answer.kind = "register" /\ answer.storeOk /\ answer.uid = ""
       /\ ValidatePasswordStrength(answer.password)
       /\ GetUserByEmailIncludeInactive(users, answer.email) # ""
       => answer.reply.status = 409 /\ answer.access = NoToken /\ answer.refresh = NoToken
C29_RevokeAfterPersist ==
    \A w \in Workers :
        /\ req[w].kind = "refresh" /\ req[w].pc = "create"
        /\ \E r \in Rows(refresh_tokens) :
              r.token_hash = TokenHash(req[w].tok) /\ r.is_revoked
        => \E r \in Rows(refresh_tokens) : r.token_hash = TokenHash(req[w].refresh)

\* C30: of the refresh requests that present the same token T while they
\* are handled concurrently, at most one is answered 200: a request that
\* was accepted before any refresh with T had been answered 200 is not
\* answered 200 once another one has been.
C30_RedeemedOnceConcurrently ==
    [][\A w \in Workers :
          /\ req[w].kind = "refresh" /\ req[w].pc = "create" /\ ~req[w].late
          /\ req'[w].kind = "idle"
          /\ Len(refresh_tokens') > Len(refresh_tokens)
          => req[w].tok \notin redeemed]_vars
\* C21: DeleteExpiredRefreshTokens is idempotent and leaves every lookup as
\* it was: a run that deletes records leaves a table that a second run at
\* the same instant does not change, deletes no record that GetRefreshToken
\* returns, and the answer of RefreshTokenHandler to every token, now and
\* after a logout with any token, is what it was without the run; requests
\* in progress go on as they were.
C21_PurgeChangesNoOutcome ==
    [][Len(refresh_tokens') < Len(refresh_tokens) =>
          /\ SelectSeq(refresh_tokens', LAMBDA r : ~DeleteExpiredWhere(r, now)) = refresh_tokens'
          /\ \A r \in Rows(refresh_tokens) :
                GetRefreshToken(refresh_tokens, r.token_hash, now) = r
                => r \in Rows(refresh_tokens')
          /\ \A tok \in IssuedRefresh, dbOk \in BOOLEAN :
                /\ GetRefreshToken(refresh_tokens', TokenHash(tok), now)
                      = GetRefreshToken(refresh_tokens, TokenHash(tok), now)
                /\ RefreshCheck(users, refresh_tokens', tok, now, dbOk)
                      = RefreshCheck(users, refresh_tokens, tok, now, dbOk)
                /\ \A out \in IssuedRefresh :
                      RefreshCheck(users, RevokeRefreshToken(refresh_tokens', TokenHash(out)),
                                   tok, now, dbOk)
                      = RefreshCheck(users, RevokeRefreshToken(refresh_tokens, TokenHash(out)),
                                     tok, now, dbOk)
          /\ req' = req /\ handed' = handed]_vars

\* The record of a rotated token has been deleted while the record of its
\* replacement is in the table and found by the lookup.
C21_Witness ==
    /\ \E tok \in redeemed : \A r \in Rows(refresh_tokens) : r.token_hash # TokenHash(tok)
    /\ \E tok \in IssuedRefresh :
          GetRefreshToken(refresh_tokens, TokenHash(tok), now) # NoRow

(***************************************************************************)
(* Password hasher claims                                                  *)
(***************************************************************************)
\* C23: password round trip.  For every password p and every salt drawn by
\* HashPassword, VerifyPassword(p, HashPassword(p)) returns true with no
\* error and VerifyPassword(q, HashPassword(p)) returns false with no error
\* for every q other than p, whichever of the digests of p is used.
C23_RoundTrip ==
    (codecOut.op = "VerifyPassword" /\ codecIn.pw.damage = "none")
    => /\ codecOut.err = ""
       /\ codecOut.valid = (codecIn.pw.presented = codecIn.pw.password)

C23_Witness ==
    /\ codecOut.op = "VerifyPassword" /\ codecIn.pw.damage = "none"
    /\ codecIn.pw.salt = "other salt"
    /\ codecIn.pw.presented # codecIn.pw.password /\ codecIn.pw.presented = <<>>
    /\ ~codecOut.valid /\ codecOut.err = ""

\* The digests VerifyPassword must refuse: not the six fields, another
\* algorithm, another version, unparsable parameters, salt or hash.
MalformedDigests == {"no dollar", "bcrypt", "five fields", "seven fields", "algorithm", "version",
                     "version text", "parameters short", "parameters text", "parallelism 256",
                     "salt", "hash"}

FailingRules(in) ==
    (IF in.pw.len \in 8..128 THEN {} ELSE {"length"})
    \cup {c \in {"upper", "lower", "digit", "special"} : in.pw[c] = 0}

\* C25: for a password that breaks several rules at once,
\* ValidatePasswordStrength reports every rule it breaks, not only the first:
\* the number of rules its error names is the number of rules broken
\* (passwords of ASCII characters, whose length in bytes is their length).
C25_EveryFailingRule ==
    (codecOut.op = "ValidatePasswordStrength" /\ codecIn.pw.pad < 128)
    => Cardinality(FailingRules(codecIn)) = (IF codecOut.err = "" THEN 0 ELSE 1)

\* C26: ValidatePasswordStrength returns nil exactly for the passwords of 8
\* to 128 characters with an uppercase letter, a lowercase letter, a digit
\* and an ASCII punctuation sign; for every other password it returns an
\* error, RegisterHandler answers 400 and creates nothing, and
\* ChangePasswordHandler changes nothing and answers 400 to an authenticated
\* caller who gave the right current password.
C26_AcceptsExactly ==
    codecOut.op = "ValidatePasswordStrength"
    => LET password == PasswordFor(codecIn)
           access == GenerateAccessToken("u1", EmailOf["u1"], 0, 1) IN
       /\ (codecOut.err = "") = (FailingRules(codecIn) = {})
       /\ codecOut.valid = (codecOut.err = "")
       /\ FailingRules(codecIn) # {}
          => /\ \A e \in Emails, dbOk \in BOOLEAN :
                   RegisterCheck(users, e, password, dbOk).status = 400
             /\ \A tok \in {access, NoToken}, cur \in Passwords, dbOk \in BOOLEAN :
                   ChangePasswordCheck(users, tok, cur, password, 0, dbOk) # GoesOn
             /\ ChangePasswordCheck(users, access, InitialPassword, password, 0, TRUE).status
                = 400

\* C27: RequireAuth returns true and writes no response exactly when the
\* request context holds a user_id that is a uuid.UUID other than uuid.Nil;
\* in every other case it writes 401 "Authentication required", aborts the
\* handler chain and returns false.
C27_RequireAuth ==
    codecOut.op = "RequireAuth"
    => IF codecIn.pw.held = "uuid.UUID" /\ codecIn.userID # ""
       THEN codecOut.valid /\ codecOut.gate.reply = GoesOn /\ ~codecOut.gate.aborted
       ELSE /\ ~codecOut.valid /\ codecOut.gate.aborted
            /\ codecOut.gate.reply = Reply(401, "Authentication required")

C27_Witness ==
    /\ codecOut.op = "RequireAuth"
    /\ codecIn.pw.held = "uuid.UUID" /\ codecIn.userID = ""
    /\ ~codecOut.valid /\ codecOut.gate.reply.status = 401

\* C28: the client gives a NotFound answer (404, USER_NOT_FOUND) the error
\* code and the user-facing message it gives to InvalidCredentials, so that
\* the error does not tell whether an account exists.
C28_NotFoundLikeInvalidCredentials ==
    (codecOut.op = "handleErrorResponse" /\ codecIn.pw.status = 404)
    => /\ codecOut.err \in {"INVALID_CREDENTIALS", handleErrorResponse(401)}
       /\ codecOut.claims.friendly
          \in {getUserFriendlyMessage("INVALID_CREDENTIALS", codecIn.pw.error),
               getUserFriendlyMessage(handleErrorResponse(401), codecIn.pw.error)}

(***************************************************************************)
(* Sessions under concurrency, hand-out and frame claims                   *)
(***************************************************************************)
\* C31: a password change cuts off sessions in flight.  Once the revoke-all
\* of a password change has covered a refresh token and the change has been
\* answered 200, a refresh with that token that passed the lookup before
\* leaves no non-revoked record for the token it issues.
C31_ChangeCutsRefreshInFlight ==
    [][\A w \in Workers :
          (/\ req[w].kind = "refresh" /\ req[w].pc = "create"
           /\ req'[w] = Idle
           /\ TokenHash(req[w].tok) \in cut)
          => \A r \in Rows(refresh_tokens') :
                r.token_hash = TokenHash(req[w].refresh) => r.is_revoked]_vars

C33_ClientLogoutEndsSession ==
    [][(answer'.kind = "logout" /\ answer' # answer)
       => \A tok \in IssuedRefresh :
             RefreshCheck(users', refresh_tokens', tok, now', TRUE) # GoesOn]_vars

(***************************************************************************)
(* Client guard, recursion and storage claims                              *)
(***************************************************************************)
\* C34: single-flight guard consistency.  isRefreshing is true exactly when
\* refreshPromise is non-null, and then the promise is that of a refresh
\* call still in flight; when a refresh call has returned, both are reset;
\* and a caller that needs a refresh while the guard is not set starts a new
\* network call.
C34_GuardConsistent ==
    [][/\ isRefreshing' <=> refreshPromise' # 0
       /\ isRefreshing' => /\ refreshPromise' \in DOMAIN flights'
                           /\ flights'[refreshPromise'].state = "pending"
       /\ \A f \in DOMAIN flights :
             (flights[f].state = "pending" /\ flights'[f].state = "done")
             => (~isRefreshing' /\ refreshPromise' = 0)
       /\ \A c \in Callers :
             (call[c].pc # "awaitRefresh" /\ call'[c].pc = "awaitRefresh" /\ ~isRefreshing)
             => /\ Len(flights') = Len(flights) + 1
                /\ flights'[Len(flights')].state = "pending"
                /\ Len(flights') \in {call'[c].preFlight, call'[c].unFlight}]_vars

\* A second refresh call is in flight after the first has returned.
C34_Witness ==
    /\ Len(flights) = 2 /\ flights[1].state = "done" /\ flights[2].state = "pending"
    /\ isRefreshing /\ refreshPromise = 2

\* C35: refresh never recurses.  An answer to POST /auth/refresh, whatever
\* its status, starts no refresh call; an answer to login or register,
\* whatever its status, ends the call without a refresh or a resend; and a
\* request starts a refresh call at most once before its first send and at
\* most once after a 401 to that send, so at most twice.
C35_RefreshNeverRecurses ==
    [][/\ (\E f \in DOMAIN flights :
              flights[f].state = "pending" /\ flights'[f].state = "done")
          => Len(flights') = Len(flights)
       /\ \A c \in Callers :
             /\ (call[c].kind = "login" /\ call[c].pc = "sent" /\ call'[c] # call[c])
                => /\ call'[c].pc = "done" /\ Len(flights') = Len(flights)
                   /\ \E o \in settled' : o.kind = "login" /\ o.sends = 1
                                            /\ o.pre = "none" /\ o.un = "none"
             /\ (/\ Len(flights') = Len(flights) + 1
                 /\ call'[c].pc = "awaitRefresh" /\ call[c].pc # "awaitRefresh")
                => \/ Free(c) /\ call'[c].pre = "wait" /\ call'[c].un = "none"
                   \/ /\ call[c].pc = "sent" /\ call[c].un = "none" /\ call'[c].un = "wait"
                      /\ Len(call[c].sends) = 1 /\ call[c].kind # "login"]_vars

\* A request whose proactive refresh succeeded got a 401 and awaits its
\* second refresh call; the other call has ended.
C35_Witness ==
    /\ \E c \in Callers : call[c].pre = "ok" /\ call[c].un = "wait" /\ call[c].unFlight = 2
    /\ Len(flights) = 2 /\ flights[2].state = "pending"
    /\ call["c1"].pc = "done" /\ ncalls = 2

\* C36: the credential store holds both tokens or neither, the two of one
\* response; and when a refresh has succeeded the stored tokens are the
\* pair of that refresh response.
C36_StoredPair ==
    [][/\ (storage'.access = NoTok) <=> (storage'.refresh = NoTok)
       /\ storage'.access.src = storage'.refresh.src
       /\ storage'.access.n = storage'.refresh.n
       /\ \A f \in DOMAIN flights :
             (flights[f].state = "pending" /\ flights'[f].state = "done")
             => /\ storage' \in {storage, EmptyStorage,
                                 [access |-> AccessTok("refresh", f, cnow),
                                  refresh |-> RefreshTok("refresh", f)]}
                /\ (\E c \in Callers :
                       Awaits(c, f) /\ call'[c].pc = "sent" /\ "ok" \in {call'[c].pre, call'[c].un})
                   => storage' = [access |-> AccessTok("refresh", f, cnow),
                                  refresh |-> RefreshTok("refresh", f)]]_vars

\* The pair of a refresh response is stored while a login is in flight.
C36_Witness ==
    /\ storage.refresh = RefreshTok("refresh", 1) /\ storage.access.src = "refresh"
    /\ \E c \in Callers : call[c].kind = "login" /\ call[c].pc = "sent"

\* C37: revocation and session creation touch only their target.  A step
\* never removes a record and never changes a column other than is_revoked,
\* which only goes from FALSE to TRUE; the revoke of a refresh changes only
\* records with the hash of the presented token, the revoke-all of a
\* password change only records of the requesting account, a logout only
\* records with the hash of its token, and a step that inserts adds one
\* non-revoked record and changes no existing one.
C37_TouchOnlyTarget ==
    [][LET Changed == {i \in DOMAIN refresh_tokens : refresh_tokens'[i] # refresh_tokens[i]} IN
       /\ Len(refresh_tokens') >= Len(refresh_tokens)
       /\ \A i \in Changed :
             refresh_tokens'[i] = [refresh_tokens[i] EXCEPT !.is_revoked = TRUE]
       /\ Len(refresh_tokens') > Len(refresh_tokens)
             => /\ Len(refresh_tokens') = Len(refresh_tokens) + 1
                /\ Changed = {}
                /\ ~refresh_tokens'[Len(refresh_tokens')].is_revoked
       /\ \A w \in Workers :
             /\ (req[w].pc = "revoke" /\ req'[w].pc = "create")
                  => \A i \in Changed : refresh_tokens[i].token_hash = TokenHash(req[w].tok)
             /\ (req[w].pc = "revokeAll" /\ req'[w] = Idle)
                  => \A i \in Changed : refresh_tokens[i].user_id = req[w].uid
       /\ (req' = req /\ Changed # {})
             => \E tok \in loggedOut' :
                   \A i \in Changed : refresh_tokens[i].token_hash = TokenHash(tok)]_vars

\* A logout has revoked the record of its token, and the record of another
\* session, of the same account or of the other one, is not revoked.
C37_Witness ==
    \E i, j \in DOMAIN refresh_tokens :
        /\ refresh_tokens[i].is_revoked
        /\ refresh_tokens[i].token_hash \in {TokenHash(tok) : tok \in loggedOut}
        /\ j # i
        /\ ~refresh_tokens[j].is_revoked

\* C38: revocation is permanent.  No step sets is_revoked of a record back
\* to FALSE or changes a revoked record in any other way before it is
\* deleted; and once a handed-out refresh token has no record that is not
\* revoked, its record revoked or already purged, it has none after any
\* step and POST /auth/refresh answers it 401 whether the lookup succeeds
\* or fails.
C38_RevocationPermanent ==
    [][/\ \A r \in Rows(refresh_tokens), q \in Rows(refresh_tokens') :
             (q.id = r.id /\ r.is_revoked) => q = r
       /\ \A tok \in IssuedRefresh :
             (\A r \in Rows(refresh_tokens) :
                 r.token_hash = TokenHash(tok) => r.is_revoked)
             => /\ \A q \in Rows(refresh_tokens') :
                      q.token_hash = TokenHash(tok) => q.is_revoked
                /\ \A dbOk \in BOOLEAN :
                      RefreshCheck(users', refresh_tokens', tok, now', dbOk).status = 401]_vars

\* The record of a token that a logout was served for has been purged and
\* the JWT of the token is still good: the 401 comes from the store.
C38_Witness ==
    \E tok \in loggedOut :
        /\ \A r \in Rows(refresh_tokens) : r.token_hash # TokenHash(tok)
        /\ ExtractUserIDFromRefreshToken(tok, now) # ""
        /\ RefreshCheck(users, refresh_tokens, tok, now, TRUE)
              = Reply(401, "Invalid or expired refresh token")

\* C39: no client operation blocks forever.  Every call that waits for the
\* answer to its request or for the refresh in flight settles in the end,
\* and the single-flight guard, once set, is reset in the end, also when the
\* network never answers the POST /auth/refresh.
C39_NoOperationBlocksForever ==
    /\ \A c \in Callers : (call[c].pc \in {"sent", "awaitRefresh"}) ~> Free(c)
    /\ isRefreshing ~> ~isRefreshing

\* C40: every session record that is expired or revoked is deleted from the
\* store in the end, while the server is running.
C40_ExpiredOrRevokedIsPurged ==
    \A id \in 0..(2 * MaxIssue) :
        (\E r \in Rows(refresh_tokens) : r.id = id /\ DeleteExpiredWhere(r, now))
        ~> (\A r \in Rows(refresh_tokens) : r.id # id)
====
